---- MODULE Spec2Model ----
(***************************************************************************)
(* The concise event renderer of codex-exec                                *)
(* (codex-rs/exec/src/event_processor_with_concise_output.rs) and its      *)
(* transcript sink (codex-rs/exec/src/transcript_log.rs).                  *)
(*                                                                         *)
(* One EventProcessorWithConciseOutput is constructed (Init) and then      *)
(* driven by a single caller, one call at a time: print_config_summary or  *)
(* process_event.  Every call is one step of the model.  Standard output   *)
(* and the transcript file are kept as the sequences of lines written so   *)
(* far, one element per println!/write_line call.                          *)
(*                                                                         *)
(* Text is a sequence of string tokens: a literal fragment of a format!    *)
(* template, a word, or one character that the code inspects (a blank, a   *)
(* line feed, a carriage return, a NUL byte).  Concatenation is \o.  An    *)
(* Option<T> is a sequence of at most one element: <<>> is None and <<x>>  *)
(* is Some(x).                                                             *)
(***************************************************************************)
EXTENDS Integers, Sequences, FiniteSets, TLC

VARIABLES
    with_ansi,           \* the flag new() chose the five styles by
    last_message_path,   \* Option<PathBuf>
    transcript_log,      \* Option<TranscriptLog>
    call_id_to_command,  \* HashMap<String, ExecCommandBegin>
    call_id_to_patch,    \* HashMap<String, PatchApplyBegin>
    latest_token_usage,  \* Option<TokenUsageInfo>
    console,             \* standard output: the lines printed so far
    transcript,          \* the transcript file: the lines on the file so far
    writer,              \* the BufWriter of the sink: the lines it still holds
    stderr,              \* the diagnostic stream: the lines eprintln! printed
    faults,              \* the outcomes the file system has for the coming writes
    written,             \* history: the lines write_line was called with so far
    last_message_calls,  \* the calls made to handle_last_message so far
    status,              \* the CodexStatus the last process_event returned
    event,               \* the argument of the last call
    calls,               \* the number of calls made so far
    observed,            \* history: what the events fed so far amount to
    clock,               \* the time now (Utc::now and Instant::now)
    twin,                \* history: a call, to be made again on a sink that never fails
    fs                   \* the file system at the transcript path, and what create returned

vars == <<with_ansi, last_message_path, transcript_log, call_id_to_command,
          call_id_to_patch, latest_token_usage, console, transcript, writer, stderr,
          faults, written, last_message_calls, status, event, calls, observed, clock,
          twin, fs>>

renderer == <<call_id_to_command, call_id_to_patch, latest_token_usage>>

\* what new() was given, and the file system the sink was opened on
config == <<with_ansi, last_message_path, transcript_log, fs>>

\* the sink: its file, its buffer, its diagnostics and what the file system will do
sink == <<transcript, writer, stderr, faults, written>>

(***************************************************************************)
(* Bounds of the model.                                                    *)
(***************************************************************************)
MaxCalls == 2

MaxExecCalls == 3

MaxPatchCalls == 3

MaxTaskCalls == 4

MaxClock == 1

MaxSinkCalls == 2

MaxFaults == 2

MaxCreateCalls == 1

MaxPairCalls == 3

MaxDupCalls == 4

MaxExitCalls == 2

MaxPlanCalls == 2

MaxLinesCalls == 2

MaxWriteCalls == 4

MaxGateCalls == 3

(***************************************************************************)
(* Option, HashMap and str helpers.                                        *)
(***************************************************************************)
None == <<>>

Some(x) == <<x>>

IsSome(o) == o # <<>>

Unwrap(o) == o[1]

HashMap_new == [k \in {} |-> <<>>]

\* HashMap_insert, keeping the value of a key that is already there
HashMap_insert_keeps_first(m, k, v) == [x \in (DOMAIN m) \cup {k} |-> IF x \in DOMAIN m THEN m[x] ELSE v]

HashMap_insert(m, k, v) == [x \in (DOMAIN m) \cup {k} |-> IF x = k THEN v ELSE m[x]]

HashMap_get(m, k) == IF k \in DOMAIN m THEN Some(m[k]) ELSE None

HashMap_remove(m, k) == [x \in (DOMAIN m) \ {k} |-> m[x]]

Whitespace == {" ", "\n", "\r", "\t"}

NulByte == "<NUL>"

\* str::trim().is_empty()
trim_is_empty(text) == \A i \in 1..Len(text) : text[i] \in Whitespace

RECURSIVE split_inclusive(_)
\* str::split_inclusive('\n'): the pieces of text, each ending with its line feed
split_inclusive(text) ==
    IF text = <<>> THEN <<>>
    ELSE LET nl == {i \in 1..Len(text) : text[i] = "\n"}
         IN IF nl = {} THEN <<text>>
            ELSE LET i == CHOOSE j \in nl : \A k \in nl : j <= k
                 IN <<SubSeq(text, 1, i)>> \o split_inclusive(SubSeq(text, i + 1, Len(text)))

\* what str::lines does to one piece: strip a final "\n", then a final "\r" before it
strip_line_ending(piece) ==
    IF piece[Len(piece)] # "\n" THEN piece
    ELSE LET line == SubSeq(piece, 1, Len(piece) - 1)
         IN IF line # <<>> /\ line[Len(line)] = "\r"
            THEN SubSeq(line, 1, Len(line) - 1)
            ELSE line

\* str::lines
lines(text) ==
    LET pieces == split_inclusive(text)
    IN [i \in 1..Len(pieces) |-> strip_line_ending(pieces[i])]

RECURSIVE join(_, _)
\* [String]::join(sep)
join(parts, sep) ==
    IF parts = <<>> THEN <<>>
    ELSE IF Len(parts) = 1 THEN parts[1]
    ELSE parts[1] \o sep \o join(Tail(parts), sep)

(***************************************************************************)
(* Formatting helpers.                                                     *)
(***************************************************************************)
\* the characters shlex quotes an argument for, among those the model draws
ShellSpecial == {" ", "\n", "\r", "\t", "'"}

\* shlex::try_quote on one argument: Err (None) on a NUL byte, '' for the empty
\* argument, the argument in single quotes when it holds a special character
shlex_try_quote(arg) ==
    IF \E i \in 1..Len(arg) : arg[i] = NulByte THEN None
    ELSE IF arg = <<>> THEN Some(<<"''">>)
    ELSE IF \E i \in 1..Len(arg) : arg[i] \in ShellSpecial
         THEN Some(<<"'">> \o arg \o <<"'">>)
         ELSE Some(arg)

\* shlex::try_join: the quoted arguments joined by blanks, Err if one fails
shlex_try_join(command) ==
    IF \E i \in 1..Len(command) : shlex_try_quote(command[i]) = None THEN None
    ELSE Some(join([i \in 1..Len(command) |-> Unwrap(shlex_try_quote(command[i]))], <<" ">>))

escape_command(command) ==
    LET joined == shlex_try_join(command)
    IN IF IsSome(joined) THEN Unwrap(joined) ELSE join(command, <<" ">>)

\* codex_common::elapsed::format_duration: the duration in time units
format_duration(duration) == <<ToString(duration), "ms">>

\* codex_common::elapsed::format_elapsed: the time since start_time, formatted
format_elapsed(start_time) == format_duration(clock - start_time)

\* TokenUsage::blended_total: non-cached input plus output
blended_total(usage) ==
    (IF usage.input_tokens >= usage.cached_input_tokens
     THEN usage.input_tokens - usage.cached_input_tokens ELSE 0) + usage.output_tokens

\* owo_colors::Style::new(): no styling
Style_new == "plain"

status_style == IF with_ansi THEN "bold" ELSE Style_new

success_style == IF with_ansi THEN "green" ELSE Style_new

error_style == IF with_ansi THEN "red" ELSE Style_new

info_style == IF with_ansi THEN "cyan" ELSE Style_new

timestamp_style == IF with_ansi THEN "dimmed" ELSE Style_new

(***************************************************************************)
(* Output.  A printed line is its timestamp (NoTimestamp on a plain line), *)
(* the style of the timestamp, its text and the style of the text; a       *)
(* transcript line is a timestamp and a text.  The emit operators take and *)
(* return the pair of both outputs, so that a handler is the composition   *)
(* of its emit calls in the order of the code.                             *)
(***************************************************************************)
NoTimestamp == -1

IO == [console |-> console, transcript |-> transcript, writer |-> writer,
       stderr |-> stderr, faults |-> faults, written |-> written]

\* what a write_line call can meet: no error, an error of writeln!, an error of flush
Outcomes == {"ok", "write_err", "flush_err"}

\* write_line, doing nothing more once a write or a flush has failed
write_line_gives_up(io, line) ==
    LET outcome == IF io.faults = <<>> THEN "ok" ELSE Head(io.faults)
        met == [io EXCEPT !.faults = IF io.faults = <<>> THEN <<>> ELSE Tail(io.faults),
                          !.written = Append(io.written, line)]
    IN CASE io.stderr # <<>> -> io
         [] io.stderr = <<>> /\ outcome = "write_err" ->
                [met EXCEPT !.stderr = Append(io.stderr,
                                              "Failed to write transcript log line")]
         [] io.stderr = <<>> /\ outcome = "flush_err" ->
                [met EXCEPT !.writer = Append(io.writer, line),
                            !.stderr = Append(io.stderr, "Failed to flush transcript log")]
         [] io.stderr = <<>> /\ outcome = "ok" ->
                [met EXCEPT !.transcript = io.transcript \o io.writer \o <<line>>,
                            !.writer = <<>>]

\* write_line without the call of flush: the line stays in the BufWriter
write_line_unflushed(io, line) ==
    LET outcome == IF io.faults = <<>> THEN "ok" ELSE Head(io.faults)
        met == [io EXCEPT !.faults = IF io.faults = <<>> THEN <<>> ELSE Tail(io.faults),
                          !.written = Append(io.written, line)]
    IN CASE outcome = "write_err" ->
                [met EXCEPT !.stderr = Append(io.stderr,
                                              "Failed to write transcript log line")]
         [] outcome = "flush_err" -> [met EXCEPT !.writer = Append(io.writer, line)]
         [] outcome = "ok" -> [met EXCEPT !.writer = Append(io.writer, line)]

\* TranscriptLog::write_line.  writeln! puts the line and a line feed into the
\* BufWriter and flush moves all the BufWriter holds to the file.  When writeln!
\* fails the line is lost, the error is printed and flush is not called; when
\* flush fails the error is printed and the BufWriter keeps what it holds.  The
\* call returns nothing in every case.
write_line(io, line) ==
    LET outcome == IF io.faults = <<>> THEN "ok" ELSE Head(io.faults)
        met == [io EXCEPT !.faults = IF io.faults = <<>> THEN <<>> ELSE Tail(io.faults),
                          !.written = Append(io.written, line)]
    IN CASE outcome = "write_err" ->
                [met EXCEPT !.stderr = Append(io.stderr,
                                              "Failed to write transcript log line")]
         [] outcome = "flush_err" ->
                [met EXCEPT !.writer = Append(io.writer, line),
                            !.stderr = Append(io.stderr, "Failed to flush transcript log")]
         [] outcome = "ok" ->
                [met EXCEPT !.transcript = io.transcript \o io.writer \o <<line>>,
                            !.writer = <<>>]

emit_status(io, message, style) ==
    LET timestamp == clock
        logged == IF IsSome(transcript_log)
                  THEN write_line(io, [ts |-> timestamp, text |-> message])
                  ELSE io
    IN [logged EXCEPT !.console = Append(io.console,
                                         [ts |-> timestamp, ts_style |-> timestamp_style,
                                          text |-> message, style |-> style])]

\* emit_plain_line, printing without writing to the transcript
emit_plain_line_console_only(io, message) ==
    [io EXCEPT !.console = Append(io.console, [ts |-> NoTimestamp, ts_style |-> Style_new,
                                               text |-> message, style |-> Style_new])]

emit_plain_line(io, message) ==
    LET logged == IF IsSome(transcript_log)
                  THEN write_line(io, [ts |-> NoTimestamp, text |-> message])
                  ELSE io
    IN [logged EXCEPT !.console = Append(io.console,
                                         [ts |-> NoTimestamp, ts_style |-> Style_new,
                                          text |-> message, style |-> Style_new])]

RECURSIVE emit_plain_lines(_, _)
\* emit_plain_line for each element of a sequence of texts, in order
emit_plain_lines(io, texts) ==
    IF texts = <<>> THEN io
    ELSE emit_plain_lines(emit_plain_line(io, Head(texts)), Tail(texts))

\* emit_multiline, passing over the lines that are empty
emit_multiline_skips_blank(io, message) ==
    emit_plain_lines(io, SelectSeq(lines(message), LAMBDA line : line # <<>>))

emit_multiline(io, message) == emit_plain_lines(io, lines(message))

\* the outputs after a call
Output(io) ==
    /\ console' = io.console
    /\ transcript' = io.transcript
    /\ writer' = io.writer
    /\ stderr' = io.stderr
    /\ faults' = io.faults
    /\ written' = io.written

(***************************************************************************)
(* The inputs the driver draws from.                                       *)
(***************************************************************************)
CallIds == {"1", "2"}

Commands ==
    { << <<"echo">>, <<"hi">> >>,            \* no argument needs quoting
      << <<"ls">>, <<"my", " ", "dir">> >>,  \* an argument with a blank
      << <<"cat">>, <<"x", NulByte>> >> }    \* an argument shlex cannot quote

ExitCodes == {0, 1}

Durations == {5}

Messages == { <<"boom">> }

Bodies == { <<" ", "\n">>, <<"done", "\n", "\n", "ok", "\n">> }

TokenUsageInfos ==
    { [total_token_usage |->
         [input_tokens |-> 10, cached_input_tokens |-> 4, output_tokens |-> 3]],
      [total_token_usage |->
         [input_tokens |-> 20, cached_input_tokens |-> 0, output_tokens |-> 5]] }

Changes == { {"a.rs", "b.rs"} }

Plans ==
    { [explanation |-> None,
       plan |-> << [step |-> <<"read">>, status |-> "Completed"],
                   [step |-> <<"edit">>, status |-> "InProgress"],
                   [step |-> <<"test">>, status |-> "Pending"] >>],
      [explanation |-> Some(<<"because">>),
       plan |-> << [step |-> <<"read">>, status |-> "Pending"] >>],
      [explanation |-> Some(<<" ">>), plan |-> <<>>] }

ConfigSummaries ==
    { [entries |-> << <<"workdir", <<"/w">> >>, <<"model", <<"gpt-5">> >>,
                      <<"sandbox", <<"read-only">> >> >>,
       cwd |-> <<"/w">>, prompt |-> <<"fix", "\n", "it">>,
       session_id |-> <<"s1">>, model |-> <<"gpt-5">>],
      \* no entry of key "sandbox", and keys that are close to it
      [entries |-> << <<"Sandbox", <<"read-only">> >>, <<"provider", <<"openai">> >>,
                      <<"sandbox_mode", <<"read-only">> >> >>,
       cwd |-> <<"/w">>, prompt |-> <<"go">>,
       session_id |-> <<"s2">>, model |-> <<"gpt-5-high">>],
      \* two entries of key "sandbox", around another entry
      [entries |-> << <<"sandbox", <<"workspace-write">> >>, <<"approval", <<"never">> >>,
                      <<"sandbox", <<"read-only">> >> >>,
       cwd |-> <<"/w">>, prompt |-> <<"go">>,
       session_id |-> <<"s3">>, model |-> <<"gpt-5-high">>] }

\* more prompts: the empty one, a single line feed, lines that end in a carriage
\* return and a line feed, blank lines inside and at the end
MoreConfigSummaries ==
    { [entries |-> << <<"sandbox", <<"read-only">> >> >>,
       cwd |-> <<"/w">>, prompt |-> p, session_id |-> <<"s1">>, model |-> <<"gpt-5">>] :
        p \in { <<>>, <<"\n">>, <<"fix", "\n", "it">>,
                <<"a", "\r", "\n", "\r", "\n", "b", "\n", "\n">> } }

\* more message bodies, of the same shapes
MoreBodies ==
    { <<>>, <<" ", "\n">>, <<"x">>, <<"a", "\r", "\n", "b", "\r">>,
      <<"\n", "x", "\n", "\n", "y", "\n", "\n">> }

\* the EventMsg variants whose arm of process_event is empty
SuppressedTags ==
    { "BackgroundEvent", "TaskStarted", "ExecCommandOutputDelta", "TurnDiff",
      "ExecApprovalRequest", "ApplyPatchApprovalRequest", "AgentReasoning",
      "AgentReasoningRawContent", "AgentReasoningDelta",
      "AgentReasoningRawContentDelta", "AgentReasoningSectionBreak",
      "AgentMessageDelta", "McpToolCallBegin", "McpToolCallEnd", "WebSearchBegin",
      "WebSearchEnd", "SessionConfigured", "GetHistoryEntryResponse",
      "McpListToolsResponse", "ListCustomPromptsResponse", "ConversationPath",
      "UserMessage", "EnteredReviewMode", "ExitedReviewMode" }

ErrorEvents == {[tag |-> "Error", message |-> m] : m \in Messages}

StreamErrorEvents == {[tag |-> "StreamError", message |-> m] : m \in Messages}

TaskCompleteEvents ==
    {[tag |-> "TaskComplete", last_agent_message |-> m] :
        m \in {None} \cup {Some(b) : b \in Bodies}}

TokenCountEvents ==
    {[tag |-> "TokenCount", info |-> i] : i \in {None} \cup {Some(u) : u \in TokenUsageInfos}}

ExecCommandBeginEvents ==
    {[tag |-> "ExecCommandBegin", call_id |-> c, command |-> cmd] :
        c \in CallIds, cmd \in Commands}

ExecCommandEndEvents ==
    {[tag |-> "ExecCommandEnd", call_id |-> c, exit_code |-> x, duration |-> d] :
        c \in CallIds, x \in ExitCodes, d \in Durations}

\* exit_code is an i32: the codes of a process that was killed by a signal or
\* never ran are below zero
SignedExitCodes == {-1, 0, 1, 2}

SignedExecCommandEndEvents ==
    {[tag |-> "ExecCommandEnd", call_id |-> c, exit_code |-> x, duration |-> d] :
        c \in CallIds, x \in SignedExitCodes, d \in Durations}

PatchApplyBeginEvents ==
    {[tag |-> "PatchApplyBegin", call_id |-> c, auto_approved |-> a, changes |-> ch] :
        c \in CallIds, a \in BOOLEAN, ch \in Changes}

PatchApplyEndEvents ==
    {[tag |-> "PatchApplyEnd", call_id |-> c, success |-> ok] :
        c \in CallIds, ok \in BOOLEAN}

AgentMessageEvents == {[tag |-> "AgentMessage", message |-> b] : b \in Bodies}

MoreAgentMessageEvents == {[tag |-> "AgentMessage", message |-> b] : b \in MoreBodies}

MoreTaskCompleteEvents ==
    {[tag |-> "TaskComplete", last_agent_message |-> Some(b)] : b \in MoreBodies}

PlanUpdateEvents ==
    {[tag |-> "PlanUpdate", explanation |-> p.explanation, plan |-> p.plan] : p \in Plans}

\* more plans: an explanation that is the empty string, one of several white
\* space characters, one of two lines, and steps of two lines and of no text
MorePlans ==
    Plans \cup
    { [explanation |-> Some(<<>>),
       plan |-> << [step |-> <<"read">>, status |-> "InProgress"] >>],
      [explanation |-> Some(<<" ", "\n", "\t">>),
       plan |-> << [step |-> <<"a", "\n", "b">>, status |-> "Pending"],
                   [step |-> <<>>, status |-> "Pending"] >>],
      [explanation |-> Some(<<"why", "\n", "so">>), plan |-> <<>>] }

MorePlanUpdateEvents ==
    {[tag |-> "PlanUpdate", explanation |-> p.explanation, plan |-> p.plan] : p \in MorePlans}

TurnAbortedEvents == {[tag |-> "TurnAborted"]}

ShutdownCompleteEvents == {[tag |-> "ShutdownComplete"]}

SuppressedEvents == {[tag |-> t] : t \in SuppressedTags}

\* CodexStatus
Running == "Running"

InitiateShutdown == "InitiateShutdown"

Shutdown == "Shutdown"

(***************************************************************************)
(* TranscriptLog::create.  A path is the sequence of its components.  Of   *)
(* the file system the model keeps the directories there are, whether the  *)
(* file at the path is there (its lines are the variable transcript),      *)
(* the directories that cannot be made and whether the file can be opened. *)
(***************************************************************************)
Paths ==
    { <<>>,                                  \* the empty path: it has no parent
      <<"transcript.log">>,                  \* its parent is the empty path
      <<"logs", "transcript.log">>,
      <<"logs", "run", "transcript.log">> }

OldContents == { <<>>, << [ts |-> NoTimestamp, text |-> <<"old">>] >> }

\* Path::parent
parent(path) == IF path = <<>> THEN None ELSE Some(SubSeq(path, 1, Len(path) - 1))

\* a directory and the directories above it
ancestors(dir) == {SubSeq(dir, 1, k) : k \in 1..Len(dir)}

\* std::fs::create_dir_all: the missing directories are made from the top down,
\* up to the first that cannot be made; nothing is missing of the empty path
create_dir_all(disk, dir) ==
    LET missing == {d \in ancestors(dir) : d \notin disk.dirs}
        blocked == {d \in missing : d \in disk.denied}
        made == {d \in missing : \A b \in blocked : Len(d) < Len(b)}
    IN [ok |-> blocked = {}, disk |-> [disk EXCEPT !.dirs = disk.dirs \cup made]]

\* whether OpenOptions::open can open or make the file at the path of the disk
can_open(disk) ==
    /\ disk.path # <<>>
    /\ ~disk.locked
    /\ ancestors(Unwrap(parent(disk.path))) \subseteq disk.dirs

\* open, keeping what the file holds
open_append(disk, content) ==
    IF can_open(disk)
    THEN [ok |-> TRUE, disk |-> [disk EXCEPT !.exists = TRUE], content |-> content]
    ELSE [ok |-> FALSE, disk |-> disk, content |-> content]

\* OpenOptions::new().create(true).truncate(true).write(true).open(path)
open(disk, content) ==
    IF can_open(disk)
    THEN [ok |-> TRUE, disk |-> [disk EXCEPT !.exists = TRUE], content |-> <<>>]
    ELSE [ok |-> FALSE, disk |-> disk, content |-> content]

\* TranscriptLog::create(path), called once, before new(); held is history: what
\* the file held when create was called
create(path) ==
    LET dir == parent(path)
        made == IF IsSome(dir) THEN create_dir_all(fs, Unwrap(dir))
                ELSE [ok |-> TRUE, disk |-> fs]
        file == open(made.disk, transcript)
        held == IF fs.exists THEN Some(transcript) ELSE None
    IN /\ fs.result = "none"
       /\ path = fs.path
       /\ IF ~made.ok
          THEN /\ fs' = [made.disk EXCEPT !.result = "Err", !.held = held]
               /\ UNCHANGED <<transcript_log, transcript>>
          ELSE IF ~file.ok
          THEN /\ fs' = [file.disk EXCEPT !.result = "Err", !.held = held]
               /\ UNCHANGED <<transcript_log, transcript>>
          ELSE /\ fs' = [file.disk EXCEPT !.result = "Ok", !.held = held]
               /\ transcript_log' = Some(path)
               /\ transcript' = file.content
       /\ UNCHANGED <<with_ansi, last_message_path, renderer, console, writer, stderr,
                      faults, written, last_message_calls, status, event, calls, observed,
                      clock, twin>>

\* the file system once create has returned Ok for the path
Opened(path) ==
    [path |-> path, dirs |-> ancestors(Unwrap(parent(path))), exists |-> TRUE,
     denied |-> {}, locked |-> FALSE, held |-> None, result |-> "Ok"]

\* the file system of a renderer that was given no sink
Unused ==
    [path |-> <<>>, dirs |-> {}, exists |-> FALSE, denied |-> {}, locked |-> FALSE,
     held |-> None, result |-> "none"]

(***************************************************************************)
(* EventProcessorWithConciseOutput::new                                    *)
(***************************************************************************)
Init ==
    /\ with_ansi \in BOOLEAN
    /\ last_message_path \in {None, Some("last.txt")}
    /\ transcript_log \in {None, Some(<<"transcript.log">>)}
    /\ fs = IF IsSome(transcript_log) THEN Opened(Unwrap(transcript_log)) ELSE Unused
    /\ call_id_to_command = HashMap_new
    /\ call_id_to_patch = HashMap_new
    /\ latest_token_usage = None
    /\ console = <<>>
    /\ transcript = <<>>
    /\ writer = <<>>
    /\ stderr = <<>>
    /\ faults = <<>>
    /\ written = <<>>
    /\ last_message_calls = <<>>
    /\ status = Running
    /\ event = [tag |-> "new"]
    /\ calls = 0
    /\ observed = [begin_line |-> [c \in CallIds |-> 0], usage |-> None,
                   usage_events |-> 0, open_commands |-> {}, open_patches |-> {}]
    /\ clock = 0
    /\ twin = [phase |-> "idle"]

(***************************************************************************)
(* The handlers.  Each gives the next value of the two maps, the usage     *)
(* snapshot, both outputs and the calls to the last-message writer.        *)
(***************************************************************************)
handle_exec_begin(ev) ==
    /\ call_id_to_command' =
           HashMap_insert(call_id_to_command, ev.call_id,
                          [command |-> ev.command, start_time |-> clock])
    /\ Output(emit_status(IO, <<"Running command: ">> \o escape_command(ev.command),
                          status_style))
    /\ UNCHANGED <<call_id_to_patch, latest_token_usage, last_message_calls>>

\* exec_end_lookup, joining the stored arguments with blanks instead of quoting them
exec_end_lookup_unquoted(ev) ==
    LET removed == HashMap_get(call_id_to_command, ev.call_id)
    IN IF IsSome(removed)
       THEN [command |-> join(Unwrap(removed).command, <<" ">>),
             started_at |-> Some(Unwrap(removed).start_time)]
       ELSE [command |-> <<"command ", ev.call_id>>, started_at |-> None]

\* exec_end_lookup, labelling an end that matches no begin by its call id alone
exec_end_lookup_bare_id(ev) ==
    LET removed == HashMap_get(call_id_to_command, ev.call_id)
    IN IF IsSome(removed)
       THEN [command |-> escape_command(Unwrap(removed).command),
             started_at |-> Some(Unwrap(removed).start_time)]
       ELSE [command |-> <<ev.call_id>>, started_at |-> None]

\* exec_end_lookup, taking the start of a pending patch of the same call id when
\* no command is pending for it
exec_end_lookup_cross(ev) ==
    LET removed == HashMap_get(call_id_to_command, ev.call_id)
        patch == HashMap_get(call_id_to_patch, ev.call_id)
    IN IF IsSome(removed)
       THEN [command |-> escape_command(Unwrap(removed).command),
             started_at |-> Some(Unwrap(removed).start_time)]
       ELSE IF IsSome(patch)
       THEN [command |-> <<"command ", ev.call_id>>,
             started_at |-> Some(Unwrap(patch).start_time)]
       ELSE [command |-> <<"command ", ev.call_id>>, started_at |-> None]

\* the match on call_id_to_command.remove(&call_id): the label and the start
exec_end_lookup(ev) ==
    LET removed == HashMap_get(call_id_to_command, ev.call_id)
    IN IF IsSome(removed)
       THEN [command |-> escape_command(Unwrap(removed).command),
             started_at |-> Some(Unwrap(removed).start_time)]
       ELSE [command |-> <<"command ", ev.call_id>>, started_at |-> None]

\* handle_exec_end with the duration the event reports on every line
exec_end_suffix_reported(ev, started_at) == format_duration(ev.duration)

\* the duration shown: the elapsed time if it formats to something, else the event's
exec_end_suffix(ev, started_at) ==
    LET duration_str == format_duration(ev.duration)
        elapsed_str == IF IsSome(started_at) THEN Some(format_elapsed(Unwrap(started_at)))
                       ELSE None
    IN IF IsSome(elapsed_str) /\ Unwrap(elapsed_str) # <<>>
       THEN Unwrap(elapsed_str) ELSE duration_str

\* handle_exec_end with the failure line for the exit codes above zero only
handle_exec_end_positive_fails(ev) ==
    LET found == exec_end_lookup(ev)
        command == found.command
        suffix == exec_end_suffix(ev, found.started_at)
        rest == <<" (exit ", ToString(ev.exit_code), ", ">> \o suffix \o <<"): ">> \o command
    IN /\ call_id_to_command' = HashMap_remove(call_id_to_command, ev.call_id)
       /\ IF ev.exit_code <= 0
          THEN Output(emit_status(IO, <<"Command succeeded">> \o rest, success_style))
          ELSE Output(emit_status(IO, <<"Command failed">> \o rest, error_style))
       /\ UNCHANGED <<call_id_to_patch, latest_token_usage, last_message_calls>>

handle_exec_end(ev) ==
    LET found == exec_end_lookup(ev)
        command == found.command
        suffix == exec_end_suffix(ev, found.started_at)
        rest == <<" (exit ", ToString(ev.exit_code), ", ">> \o suffix \o <<"): ">> \o command
    IN /\ call_id_to_command' = HashMap_remove(call_id_to_command, ev.call_id)
       /\ IF ev.exit_code = 0
          THEN Output(emit_status(IO, <<"Command succeeded">> \o rest, success_style))
          ELSE Output(emit_status(IO, <<"Command failed">> \o rest, error_style))
       /\ UNCHANGED <<call_id_to_patch, latest_token_usage, last_message_calls>>

handle_patch_begin(ev) ==
    LET file_count == Cardinality(ev.changes)
        approval == IF ev.auto_approved THEN "auto-approved" ELSE "awaiting approval"
    IN /\ call_id_to_patch' =
              HashMap_insert(call_id_to_patch, ev.call_id,
                             [start_time |-> clock, auto_approved |-> ev.auto_approved])
       /\ Output(emit_status(IO, <<"Applying patch (", approval, ", ",
                                   ToString(file_count), " files)">>, status_style))
       /\ UNCHANGED <<call_id_to_command, latest_token_usage, last_message_calls>>

\* the match on (success, duration): the four templates
patch_end_summary(success, duration, approval) ==
    CASE success /\ IsSome(duration) ->
             <<"Patch applied (", approval, ", ">> \o Unwrap(duration) \o <<")">>
      [] success /\ ~IsSome(duration) -> <<"Patch applied (", approval, ")">>
      [] ~success /\ IsSome(duration) ->
             <<"Patch failed (", approval, ", ">> \o Unwrap(duration) \o <<")">>
      [] ~success /\ ~IsSome(duration) -> <<"Patch failed (", approval, ")">>

\* patch_end_style, with the success style on either outcome
patch_end_style_always_success(success) == success_style

patch_end_style(success) == IF success THEN success_style ELSE error_style

\* handle_patch_end, taking a patch without an entry for an auto-approved one
handle_patch_end_default_approved(ev) ==
    LET removed == HashMap_get(call_id_to_patch, ev.call_id)
        auto_approved == IF IsSome(removed) THEN Unwrap(removed).auto_approved ELSE TRUE
        start_time == IF IsSome(removed) THEN Some(Unwrap(removed).start_time) ELSE None
        duration == IF IsSome(start_time) THEN Some(format_elapsed(Unwrap(start_time)))
                    ELSE None
        approval == IF auto_approved THEN "auto-approved" ELSE "manual"
        summary == patch_end_summary(ev.success, duration, approval)
        style == patch_end_style(ev.success)
    IN /\ call_id_to_patch' = HashMap_remove(call_id_to_patch, ev.call_id)
       /\ Output(emit_status(IO, summary, style))
       /\ UNCHANGED <<call_id_to_command, latest_token_usage, last_message_calls>>

handle_patch_end(ev) ==
    LET removed == HashMap_get(call_id_to_patch, ev.call_id)
        auto_approved == IF IsSome(removed) THEN Unwrap(removed).auto_approved ELSE FALSE
        start_time == IF IsSome(removed) THEN Some(Unwrap(removed).start_time) ELSE None
        duration == IF IsSome(start_time) THEN Some(format_elapsed(Unwrap(start_time)))
                    ELSE None
        approval == IF auto_approved THEN "auto-approved" ELSE "manual"
        summary == patch_end_summary(ev.success, duration, approval)
        style == patch_end_style(ev.success)
    IN /\ call_id_to_patch' = HashMap_remove(call_id_to_patch, ev.call_id)
       /\ Output(emit_status(IO, summary, style))
       /\ UNCHANGED <<call_id_to_command, latest_token_usage, last_message_calls>>

\* handle_plan_update, printing every explanation that is present
handle_plan_update_untrimmed(ev) ==
    LET marker(item_status) ==
            CASE item_status = "Completed" -> "U+2713"
              [] item_status = "InProgress" -> "U+2192"
              [] item_status = "Pending" -> "U+2022"
        summary == [i \in 1..Len(ev.plan) |->
                       <<marker(ev.plan[i].status), " ">> \o ev.plan[i].step]
        io1 == emit_status(IO, <<"Plan update">>, info_style)
        io2 == IF IsSome(ev.explanation)
               THEN emit_plain_line(io1, Unwrap(ev.explanation))
               ELSE io1
    IN /\ Output(emit_plain_lines(io2, summary))
       /\ UNCHANGED <<renderer, last_message_calls>>

handle_plan_update(ev) ==
    \* the three markers are named by their code points
    LET marker(item_status) ==
            CASE item_status = "Completed" -> "U+2713"
              [] item_status = "InProgress" -> "U+2192"
              [] item_status = "Pending" -> "U+2022"
        summary == [i \in 1..Len(ev.plan) |->
                       <<marker(ev.plan[i].status), " ">> \o ev.plan[i].step]
        io1 == emit_status(IO, <<"Plan update">>, info_style)
        io2 == IF IsSome(ev.explanation) /\ ~trim_is_empty(Unwrap(ev.explanation))
               THEN emit_plain_line(io1, Unwrap(ev.explanation))
               ELSE io1
    IN /\ Output(emit_plain_lines(io2, summary))
       /\ UNCHANGED <<renderer, last_message_calls>>

\* handle_token_count, adding the new counts to the retained snapshot
handle_token_count_accumulates(ev) ==
    /\ latest_token_usage' =
           IF ~IsSome(ev.info) THEN latest_token_usage
           ELSE IF ~IsSome(latest_token_usage) THEN Some(Unwrap(ev.info))
           ELSE LET old == Unwrap(latest_token_usage).total_token_usage
                    new == Unwrap(ev.info).total_token_usage
                IN Some([total_token_usage |->
                            [input_tokens |-> old.input_tokens + new.input_tokens,
                             cached_input_tokens |->
                                 old.cached_input_tokens + new.cached_input_tokens,
                             output_tokens |-> old.output_tokens + new.output_tokens]])
    /\ UNCHANGED <<call_id_to_command, call_id_to_patch, console, sink,
                   last_message_calls>>

handle_token_count(ev) ==
    /\ latest_token_usage' = IF IsSome(ev.info) THEN Some(Unwrap(ev.info))
                             ELSE latest_token_usage
    /\ UNCHANGED <<call_id_to_command, call_id_to_patch, console, sink,
                   last_message_calls>>

\* emit_final_token_usage, reading the snapshot without taking it
emit_final_token_usage_keeps(io) ==
    /\ UNCHANGED latest_token_usage
    /\ IF IsSome(latest_token_usage)
       THEN LET total == blended_total(Unwrap(latest_token_usage).total_token_usage)
            IN Output(emit_status(io, <<"Total tokens used: ", ToString(total)>>,
                                  info_style))
       ELSE Output(io)

\* Option::take, and the usage line if there was a snapshot
emit_final_token_usage(io) ==
    /\ latest_token_usage' = None
    /\ IF IsSome(latest_token_usage)
       THEN LET total == blended_total(Unwrap(latest_token_usage).total_token_usage)
            IN Output(emit_status(io, <<"Total tokens used: ", ToString(total)>>,
                                  info_style))
       ELSE Output(io)

\* crate::event_processor::handle_last_message: the call is recorded, with the
\* number of lines printed by the time it is made
handle_last_message(io, last_agent_message, output_file) ==
    last_message_calls' =
        Append(last_message_calls,
               [last_agent_message |-> last_agent_message, output_file |-> output_file,
                printed |-> Len(io.console)])

(***************************************************************************)
(* EventProcessor for EventProcessorWithConciseOutput                      *)
(***************************************************************************)
VERSION == <<"0.0.0">>

\* summary_entries, keeping every entry
summary_entries_unfiltered(entries) == entries

\* the entries the for loop prints: those with if key == "sandbox"
summary_entries(entries) == SelectSeq(entries, LAMBDA kv : kv[1] = "sandbox")

print_config_summary(c) ==
    LET sandbox == summary_entries(c.entries)
        io1 == emit_status(IO, <<"Codex (v">> \o VERSION \o <<") non-interactive session">>,
                           status_style)
        io2 == emit_status(io1, <<"Session ">> \o c.session_id \o <<" using model ">>
                                \o c.model, info_style)
        io3 == emit_status(io2, <<"model: ">> \o c.model, info_style)
        RECURSIVE entry_lines(_, _)
        entry_lines(io, entries) ==
            IF entries = <<>> THEN io
            ELSE entry_lines(emit_status(io, <<Head(entries)[1], ": ">> \o Head(entries)[2],
                                         info_style),
                             Tail(entries))
        io4 == entry_lines(io3, sandbox)
        io5 == emit_status(io4, <<"Working directory: ">> \o c.cwd, info_style)
        io6 == emit_status(io5, <<"Prompt:">>, status_style)
    IN /\ calls' = calls + 1
       /\ event' = [tag |-> "print_config_summary", config |-> c]
       /\ Output(emit_multiline(io6, c.prompt))
       /\ UNCHANGED <<config, renderer, last_message_calls, status, observed, clock,
                       twin>>

\* final_result, testing the message for emptiness without trimming it
final_result_untrimmed(io, last_agent_message) ==
    IF IsSome(last_agent_message) /\ Unwrap(last_agent_message) # <<>>
    THEN emit_multiline(emit_status(io, <<"Final result:">>, status_style),
                        Unwrap(last_agent_message))
    ELSE emit_status(io, <<"Task complete (no final message).">>, status_style)

\* the match on last_agent_message: the final result, or the line that there is none
final_result(io, last_agent_message) ==
    IF IsSome(last_agent_message) /\ ~trim_is_empty(Unwrap(last_agent_message))
    THEN emit_multiline(emit_status(io, <<"Final result:">>, status_style),
                        Unwrap(last_agent_message))
    ELSE emit_status(io, <<"Task complete (no final message).">>, status_style)

\* write_last_message, skipping the writer when there is no message
write_last_message_if_some(io, last_agent_message) ==
    IF IsSome(last_message_path) /\ IsSome(last_agent_message)
    THEN handle_last_message(io, last_agent_message, Unwrap(last_message_path))
    ELSE UNCHANGED last_message_calls

\* the call of the last-message writer, if a path was configured
write_last_message(io, last_agent_message) ==
    IF IsSome(last_message_path)
    THEN handle_last_message(io, last_agent_message, Unwrap(last_message_path))
    ELSE UNCHANGED last_message_calls

\* task_complete, forgetting the commands and patches that are pending
task_complete_clears_pending(ev) ==
    /\ write_last_message(IO, ev.last_agent_message)
    /\ emit_final_token_usage(final_result(IO, ev.last_agent_message))
    /\ call_id_to_command' = HashMap_new
    /\ call_id_to_patch' = HashMap_new
    /\ status' = InitiateShutdown

\* task_complete, calling the last-message writer after the final result is printed
task_complete_writes_last(ev) ==
    /\ write_last_message(final_result(IO, ev.last_agent_message), ev.last_agent_message)
    /\ emit_final_token_usage(final_result(IO, ev.last_agent_message))
    /\ UNCHANGED <<call_id_to_command, call_id_to_patch>>
    /\ status' = InitiateShutdown

\* the arm of EventMsg::TaskComplete, which returns InitiateShutdown
task_complete(ev) ==
    /\ write_last_message(IO, ev.last_agent_message)
    /\ emit_final_token_usage(final_result(IO, ev.last_agent_message))
    /\ UNCHANGED <<call_id_to_command, call_id_to_patch>>
    /\ status' = InitiateShutdown

\* shutdown_complete, falling through to Running instead of returning Shutdown
shutdown_complete_falls_through ==
    /\ UNCHANGED <<renderer, console, sink, last_message_calls>>
    /\ status' = Running

\* the arm of EventMsg::ShutdownComplete, which returns Shutdown
shutdown_complete ==
    /\ UNCHANGED <<renderer, console, sink, last_message_calls>>
    /\ status' = Shutdown

\* the arm of EventMsg::AgentMessage, testing the message without trimming it
agent_message_untrimmed(ev) ==
    /\ IF ev.message # <<>>
       THEN Output(emit_multiline(emit_status(IO, <<"Agent message:">>, info_style),
                                  ev.message))
       ELSE UNCHANGED <<console, sink>>
    /\ UNCHANGED <<renderer, last_message_calls>>

\* the arm of EventMsg::AgentMessage
agent_message(ev) ==
    /\ IF ~trim_is_empty(ev.message)
       THEN Output(emit_multiline(emit_status(IO, <<"Agent message:">>, info_style),
                                  ev.message))
       ELSE UNCHANGED <<console, sink>>
    /\ UNCHANGED <<renderer, last_message_calls>>

\* suppressed, printing a line for the event
suppressed_prints ==
    /\ Output(emit_status(IO, <<"Event">>, info_style))
    /\ UNCHANGED <<renderer, last_message_calls>>

\* the arms with an empty body
suppressed == UNCHANGED <<renderer, console, sink, last_message_calls>>

\* an arm that emits one status line and touches nothing else
status_only(message, style) ==
    /\ Output(emit_status(IO, message, style))
    /\ UNCHANGED <<renderer, last_message_calls>>

\* the arms that fall through to the final CodexStatus::Running
falls_through(ev) ==
    CASE ev.tag = "Error" -> status_only(<<"Error: ">> \o ev.message, error_style)
      [] ev.tag = "StreamError" ->
             status_only(<<"Stream error: ">> \o ev.message, error_style)
      [] ev.tag = "TokenCount" -> handle_token_count(ev)
      [] ev.tag = "ExecCommandBegin" -> handle_exec_begin(ev)
      [] ev.tag = "ExecCommandEnd" -> handle_exec_end(ev)
      [] ev.tag = "PatchApplyBegin" -> handle_patch_begin(ev)
      [] ev.tag = "PatchApplyEnd" -> handle_patch_end(ev)
      [] ev.tag = "AgentMessage" -> agent_message(ev)
      [] ev.tag = "PlanUpdate" -> handle_plan_update(ev)
      [] ev.tag = "TurnAborted" -> status_only(<<"Task aborted">>, error_style)
      [] ev.tag \in SuppressedTags -> suppressed

\* History, for stating properties: for each call id the place on the console of
\* the line of its command-begin (0 once the command has ended, or if none began),
\* the usage info of the latest token count that carried one since the last task
\* completion, the number of token counts that carried one so far, and the call
\* ids of the commands, and of the patches, that began and have not ended since.
observe(ev) ==
    observed' =
        [begin_line |->
             CASE ev.tag = "ExecCommandBegin" ->
                      [observed.begin_line EXCEPT ![ev.call_id] = Len(console')]
               [] ev.tag = "ExecCommandEnd" ->
                      [observed.begin_line EXCEPT ![ev.call_id] = 0]
               [] OTHER -> observed.begin_line,
         usage |->
             CASE ev.tag = "TokenCount" /\ IsSome(ev.info) -> ev.info
               [] ev.tag = "TaskComplete" -> None
               [] OTHER -> observed.usage,
         usage_events |->
             IF ev.tag = "TokenCount" /\ IsSome(ev.info)
             THEN observed.usage_events + 1 ELSE observed.usage_events,
         open_commands |->
             CASE ev.tag = "ExecCommandBegin" -> observed.open_commands \cup {ev.call_id}
               [] ev.tag = "ExecCommandEnd" -> observed.open_commands \ {ev.call_id}
               [] OTHER -> observed.open_commands,
         open_patches |->
             CASE ev.tag = "PatchApplyBegin" -> observed.open_patches \cup {ev.call_id}
               [] ev.tag = "PatchApplyEnd" -> observed.open_patches \ {ev.call_id}
               [] OTHER -> observed.open_patches]

\* process_event, with the arms that fall through returning the status returned last
process_event_keeps_status(ev) ==
    /\ calls' = calls + 1
    /\ event' = ev
    /\ UNCHANGED <<config, clock, twin>>
    /\ CASE ev.tag = "TaskComplete" -> task_complete(ev)
         [] ev.tag = "ShutdownComplete" -> shutdown_complete
         [] OTHER -> falls_through(ev) /\ status' = status
    /\ observe(ev)

\* process_event, doing nothing once InitiateShutdown or Shutdown has been returned
process_event_gated(ev) ==
    /\ calls' = calls + 1
    /\ event' = ev
    /\ UNCHANGED <<config, clock, twin>>
    /\ IF status # Running
       THEN UNCHANGED <<renderer, console, sink, last_message_calls, status>>
       ELSE CASE ev.tag = "TaskComplete" -> task_complete(ev)
              [] ev.tag = "ShutdownComplete" -> shutdown_complete
              [] OTHER -> falls_through(ev) /\ status' = Running
    /\ observe(ev)

process_event(ev) ==
    /\ calls' = calls + 1
    /\ event' = ev
    /\ UNCHANGED <<config, clock, twin>>
    /\ CASE ev.tag = "TaskComplete" -> task_complete(ev)
         [] ev.tag = "ShutdownComplete" -> shutdown_complete
         [] OTHER -> falls_through(ev) /\ status' = Running
    /\ observe(ev)

(***************************************************************************)
(* The driver makes one call at a time, of any event, and time passes      *)
(* between calls.                                                          *)
(***************************************************************************)
PrintConfigSummary == \E c \in ConfigSummaries : print_config_summary(c)

Error == \E ev \in ErrorEvents : process_event(ev)

StreamError == \E ev \in StreamErrorEvents : process_event(ev)

TaskComplete == \E ev \in TaskCompleteEvents : process_event(ev)

TokenCount == \E ev \in TokenCountEvents : process_event(ev)

ExecCommandBegin == \E ev \in ExecCommandBeginEvents : process_event(ev)

ExecCommandEnd == \E ev \in ExecCommandEndEvents : process_event(ev)

SignedExecCommandEnd == \E ev \in SignedExecCommandEndEvents : process_event(ev)

PatchApplyBegin == \E ev \in PatchApplyBeginEvents : process_event(ev)

PatchApplyEnd == \E ev \in PatchApplyEndEvents : process_event(ev)

AgentMessage == \E ev \in AgentMessageEvents : process_event(ev)

PlanUpdate == \E ev \in PlanUpdateEvents : process_event(ev)

MorePlanUpdate == \E ev \in MorePlanUpdateEvents : process_event(ev)

MorePrintConfigSummary == \E c \in MoreConfigSummaries : print_config_summary(c)

MoreAgentMessage == \E ev \in MoreAgentMessageEvents : process_event(ev)

MoreTaskComplete == \E ev \in MoreTaskCompleteEvents : process_event(ev)

TurnAborted == \E ev \in TurnAbortedEvents : process_event(ev)

ShutdownComplete == \E ev \in ShutdownCompleteEvents : process_event(ev)

Suppressed == \E ev \in SuppressedEvents : process_event(ev)

Tick ==
    /\ clock < MaxClock
    /\ clock' = clock + 1
    /\ UNCHANGED <<config, renderer, console, sink, last_message_calls, status,
                   event, calls, observed, twin>>

\* Every call the driver can make, up to MaxCalls calls.
Next ==
    \/ calls < MaxCalls /\ PrintConfigSummary
    \/ calls < MaxCalls /\ Error
    \/ calls < MaxCalls /\ StreamError
    \/ calls < MaxCalls /\ TaskComplete
    \/ calls < MaxCalls /\ TokenCount
    \/ calls < MaxCalls /\ ExecCommandBegin
    \/ calls < MaxCalls /\ ExecCommandEnd
    \/ calls < MaxCalls /\ PatchApplyBegin
    \/ calls < MaxCalls /\ PatchApplyEnd
    \/ calls < MaxCalls /\ AgentMessage
    \/ calls < MaxCalls /\ PlanUpdate
    \/ calls < MaxCalls /\ TurnAborted
    \/ calls < MaxCalls /\ ShutdownComplete
    \/ calls < MaxCalls /\ Suppressed
    \/ Tick

Spec == Init /\ [][Next]_vars

\* A session of commands: up to MaxExecCalls command events.
NextExec ==
    \/ calls < MaxExecCalls /\ ExecCommandBegin
    \/ calls < MaxExecCalls /\ ExecCommandEnd
    \/ Tick

SpecExec == Init /\ [][NextExec]_vars

\* A session of patches: up to MaxPatchCalls patch events.
NextPatch ==
    \/ calls < MaxPatchCalls /\ PatchApplyBegin
    \/ calls < MaxPatchCalls /\ PatchApplyEnd
    \/ Tick

SpecPatch == Init /\ [][NextPatch]_vars

\* The end of a session: up to MaxTaskCalls token counts, task completions,
\* agent messages and shutdown acknowledgements.
NextTask ==
    \/ calls < MaxTaskCalls /\ TokenCount
    \/ calls < MaxTaskCalls /\ TaskComplete
    \/ calls < MaxTaskCalls /\ AgentMessage
    \/ calls < MaxTaskCalls /\ ShutdownComplete
    \/ Tick

SpecTask == Init /\ [][NextTask]_vars

\* Commands that reuse one call id: up to MaxDupCalls command events for it.
NextDup ==
    \/ calls < MaxDupCalls /\ ExecCommandBegin /\ event'.call_id = "1"
    \/ calls < MaxDupCalls /\ ExecCommandEnd /\ event'.call_id = "1"
    \/ Tick

SpecDup == Init /\ [][NextDup]_vars

\* Commands that end with any exit code: up to MaxExitCalls command events.
NextExit ==
    \/ calls < MaxExitCalls /\ ExecCommandBegin
    \/ calls < MaxExitCalls /\ SignedExecCommandEnd
    \/ Tick

SpecExit == Init /\ [][NextExit]_vars

\* Plan updates while a command or a patch may be pending: up to MaxPlanCalls
\* plan updates, command-begins and patch-begins.
NextPlan ==
    \/ calls < MaxPlanCalls /\ MorePlanUpdate
    \/ calls < MaxPlanCalls /\ ExecCommandBegin
    \/ calls < MaxPlanCalls /\ PatchApplyBegin
    \/ Tick

SpecPlan == Init /\ [][NextPlan]_vars

\* The calls that print a body of several lines: up to MaxLinesCalls
\* configuration summaries, agent messages, task completions and token counts.
NextLines ==
    \/ calls < MaxLinesCalls /\ MorePrintConfigSummary
    \/ calls < MaxLinesCalls /\ MoreAgentMessage
    \/ calls < MaxLinesCalls /\ MoreTaskComplete
    \/ calls < MaxLinesCalls /\ TokenCount
    \/ Tick

SpecLines == Init /\ [][NextLines]_vars

\* Commands and patches side by side, and the end of the session: up to
\* MaxPairCalls begin, end, task-complete and shutdown-complete events.
NextPair ==
    \/ calls < MaxPairCalls /\ ExecCommandBegin
    \/ calls < MaxPairCalls /\ ExecCommandEnd
    \/ calls < MaxPairCalls /\ PatchApplyBegin
    \/ calls < MaxPairCalls /\ PatchApplyEnd
    \/ calls < MaxPairCalls /\ TaskComplete
    \/ calls < MaxPairCalls /\ ShutdownComplete

SpecPair == Init /\ [][NextPair]_vars

(***************************************************************************)
(* A sink that fails.  The file system decides the outcome of each of the  *)
(* coming MaxFaults calls of write_line; the writes after them succeed.    *)
(***************************************************************************)
FaultSchedules == [1..MaxFaults -> Outcomes]

SinkFault ==
    /\ IsSome(transcript_log)
    /\ twin.phase = "idle"
    /\ faults = <<>>
    /\ stderr = <<>>
    /\ \E f \in FaultSchedules : faults' = f
    /\ UNCHANGED <<config, renderer, console, transcript, writer, stderr, written,
                   last_message_calls, status, event, calls, observed, clock, twin>>

\* what a call can change apart from the file, the buffer and the diagnostics
Core ==
    [console |-> console, status |-> status, call_id_to_command |-> call_id_to_command,
     call_id_to_patch |-> call_id_to_patch, latest_token_usage |-> latest_token_usage,
     last_message_calls |-> last_message_calls, written |-> written]

\* The same call twice from the same state.  Snapshot keeps the state before a
\* call; once the call is made, Rewind keeps what the call did, puts the renderer
\* back and replaces the sink by one on which every write so far succeeded and
\* every coming write will; the call is then made again, with the same argument.
Snapshot ==
    /\ twin.phase = "idle"
    /\ twin' = [phase |-> "marked",
                pre |-> [core |-> Core, event |-> event, calls |-> calls,
                         observed |-> observed]]
    /\ UNCHANGED <<config, renderer, console, sink, last_message_calls, status, event,
                   calls, observed, clock>>

rewind(returned) ==
    /\ twin.phase = "marked"
    /\ calls = twin.pre.calls + 1
    /\ twin' = [phase |-> "replay", pre |-> twin.pre, ev |-> event, post |-> Core,
                failures |-> Len(stderr)]
    /\ console' = twin.pre.core.console
    /\ status' = returned
    /\ call_id_to_command' = twin.pre.core.call_id_to_command
    /\ call_id_to_patch' = twin.pre.core.call_id_to_patch
    /\ latest_token_usage' = twin.pre.core.latest_token_usage
    /\ last_message_calls' = twin.pre.core.last_message_calls
    /\ written' = twin.pre.core.written
    /\ event' = twin.pre.event
    /\ calls' = twin.pre.calls
    /\ observed' = twin.pre.observed
    /\ transcript' = twin.pre.core.written
    /\ writer' = <<>>
    /\ stderr' = <<>>
    /\ faults' = <<>>
    /\ UNCHANGED <<config, clock>>

Rewind == rewind(twin.pre.core.status)

\* Rewind, to a caller that has been returned Running
Forget == rewind(Running)

\* a call may be made in a free run, once after Snapshot and once after Rewind
CallAllowed == IF twin.phase = "idle" THEN TRUE ELSE calls = twin.pre.calls

\* the call after Rewind is the call made before it
SameCall == IF twin.phase = "replay" THEN event' = twin.ev ELSE TRUE

\* the state is the one put back, and the second call has not been made
Rewound == IF twin.phase = "replay" THEN calls = twin.pre.calls ELSE FALSE

Replayed == IF twin.phase = "replay" THEN calls = twin.pre.calls + 1 ELSE FALSE

\* new() with a transcript sink, a last-message path and ANSI styles
InitSink == Init /\ IsSome(transcript_log) /\ IsSome(last_message_path) /\ with_ansi

\* A session on a failing sink: up to MaxSinkCalls calls.
NextSink ==
    \/ calls < MaxSinkCalls /\ CallAllowed /\ PrintConfigSummary /\ SameCall
    \/ calls < MaxSinkCalls /\ CallAllowed /\ TaskComplete /\ SameCall
    \/ calls < MaxSinkCalls /\ CallAllowed /\ TokenCount /\ SameCall
    \/ calls < MaxSinkCalls /\ CallAllowed /\ ExecCommandBegin /\ SameCall
    \/ calls < MaxSinkCalls /\ CallAllowed /\ ExecCommandEnd /\ SameCall
    \/ calls < MaxSinkCalls /\ CallAllowed /\ PatchApplyBegin /\ SameCall
    \/ calls < MaxSinkCalls /\ CallAllowed /\ PatchApplyEnd /\ SameCall
    \/ calls < MaxSinkCalls /\ CallAllowed /\ ShutdownComplete /\ SameCall
    \/ SinkFault
    \/ calls < MaxSinkCalls /\ Snapshot
    \/ Rewind

SpecSink == InitSink /\ [][NextSink]_vars

\* the lines handed to write_line one by one
WrittenLines ==
    { [ts |-> NoTimestamp, text |-> <<"a">>], [ts |-> 0, text |-> <<"b">>] }

\* one call of write_line
WriteLine ==
    /\ IsSome(transcript_log)
    /\ \E line \in WrittenLines : Output([write_line(IO, line) EXCEPT !.console = console])
    /\ UNCHANGED <<config, renderer, last_message_calls, status, event, calls, observed,
                   clock, twin>>

\* The sink by itself: up to MaxWriteCalls calls of write_line, on a file system
\* that may start failing.
NextWrite ==
    \/ Len(written) < MaxWriteCalls /\ WriteLine
    \/ SinkFault

SpecWrite == InitSink /\ [][NextWrite]_vars

\* A caller that goes on calling after InitiateShutdown or Shutdown: up to
\* MaxGateCalls calls, any of them made a second time as if Running had been
\* returned before it.
NextGate ==
    \/ calls < MaxGateCalls /\ CallAllowed /\ TaskComplete /\ SameCall
    \/ calls < MaxGateCalls /\ CallAllowed /\ ShutdownComplete /\ SameCall
    \/ calls < MaxGateCalls /\ CallAllowed /\ TokenCount /\ SameCall
    \/ calls < MaxGateCalls /\ CallAllowed /\ ExecCommandBegin /\ SameCall
    \/ calls < MaxGateCalls /\ CallAllowed /\ ExecCommandEnd /\ SameCall
    \/ calls < MaxGateCalls /\ Snapshot
    \/ Forget

SpecGate == Init /\ [][NextGate]_vars

(***************************************************************************)
(* Opening the sink.  Before create is called the file may be there or not *)
(* and hold lines of an earlier session, directories may be missing, some  *)
(* may be impossible to make and the file may be impossible to open.  The  *)
(* renderer is constructed, and called, only if create returns Ok.         *)
(***************************************************************************)
Dirs == UNION {ancestors(Unwrap(parent(p))) : p \in Paths \ {<<>>}}

Disks ==
    {d \in [path : Paths, dirs : SUBSET Dirs, exists : BOOLEAN, denied : SUBSET Dirs,
            locked : BOOLEAN, held : {None}, result : {"none"}] :
        /\ \A x \in d.dirs : ancestors(x) \subseteq d.dirs
        /\ d.exists => /\ d.path # <<>>
                       /\ ancestors(Unwrap(parent(d.path))) \subseteq d.dirs}

InitCreate ==
    /\ with_ansi \in BOOLEAN
    /\ last_message_path \in {None, Some("last.txt")}
    /\ transcript_log = None
    /\ fs \in Disks
    /\ transcript \in IF fs.exists THEN OldContents ELSE {<<>>}
    /\ call_id_to_command = HashMap_new
    /\ call_id_to_patch = HashMap_new
    /\ latest_token_usage = None
    /\ console = <<>>
    /\ writer = <<>>
    /\ stderr = <<>>
    /\ faults = <<>>
    /\ written = <<>>
    /\ last_message_calls = <<>>
    /\ status = Running
    /\ event = [tag |-> "new"]
    /\ calls = 0
    /\ observed = [begin_line |-> [c \in CallIds |-> 0], usage |-> None,
                   usage_events |-> 0, open_commands |-> {}, open_patches |-> {}]
    /\ clock = 0
    /\ twin = [phase |-> "idle"]

Create == \E path \in Paths : create(path)

NextCreate ==
    \/ Create
    \/ fs.result = "Ok" /\ calls < MaxCreateCalls /\ PrintConfigSummary
    \/ fs.result = "Ok" /\ calls < MaxCreateCalls /\ TaskComplete

SpecCreate == InitCreate /\ [][NextCreate]_vars

(***************************************************************************)
(* Properties.  A step is a call of process_event on an event of tag t     *)
(* when Called(t) holds of it; the lines the call printed are Emitted.     *)
(***************************************************************************)
Called(tag) == calls' = calls + 1 /\ event'.tag = tag

Emitted == SubSeq(console', Len(console) + 1, Len(console'))

LastLine == console[Len(console)]

\* the tokens of text after the first token tok
AfterToken(text, tok) ==
    LET at == {i \in 1..Len(text) : text[i] = tok}
        first == CHOOSE i \in at : \A j \in at : i <= j
    IN IF at = {} THEN <<>> ELSE SubSeq(text, first + 1, Len(text))

ProcessEventTags ==
    SuppressedTags \cup
    { "Error", "StreamError", "TaskComplete", "TokenCount", "ExecCommandBegin",
      "ExecCommandEnd", "PatchApplyBegin", "PatchApplyEnd", "AgentMessage",
      "PlanUpdate", "TurnAborted", "ShutdownComplete" }

\* C1: process_event returns InitiateShutdown exactly on a task-complete event,
\* Shutdown exactly on a shutdown-complete event and Running on every other event,
\* in whatever state it is called; a shutdown-complete event prints no line, writes
\* no transcript line and leaves both maps and the usage snapshot as they were.
C1_ControlSignal ==
    [][\A tag \in ProcessEventTags : Called(tag) =>
          /\ (status' = InitiateShutdown <=> tag = "TaskComplete")
          /\ (status' = Shutdown <=> tag = "ShutdownComplete")
          /\ (status' = Running <=> tag \notin {"TaskComplete", "ShutdownComplete"})
          /\ (tag = "ShutdownComplete" =>
                  UNCHANGED <<console, transcript, call_id_to_command, call_id_to_patch,
                              latest_token_usage>>)]_vars

\* C1 witness: a shutdown-complete has returned Shutdown after an earlier call
\* that printed lines.
C1_Witness ==
    /\ event.tag = "ShutdownComplete"
    /\ status = Shutdown
    /\ calls = 2
    /\ console # <<>>

\* C2: when a command-end is processed for a call id whose command-begin was
\* processed with no command-end for that id since, the command text on the end
\* line equals the command text on the line that begin printed; and the begin line
\* shows the begin event's argument list, shell-quoted.
C2_EndShowsBeginCommand ==
    [][/\ Called("ExecCommandBegin") =>
              /\ Len(Emitted) = 1
              /\ Emitted[1].text = <<"Running command: ">> \o escape_command(event'.command)
       /\ (Called("ExecCommandEnd") /\ observed.begin_line[event'.call_id] # 0) =>
              LET begin == console[observed.begin_line[event'.call_id]]
              IN /\ Len(Emitted) = 1
                 /\ begin.text[1] = "Running command: "
                 /\ Emitted[1].text[1] \in {"Command succeeded", "Command failed"}
                 /\ AfterToken(Emitted[1].text, "): ") = Tail(begin.text)]_vars

\* C2 witness: a command whose argument needs quoting began, another command
\* began, and the first has ended showing the quoted text of its begin line.
C2_Witness ==
    /\ event.tag = "ExecCommandEnd"
    /\ Len(console) = 3
    /\ console[1].text = <<"Running command: ", "ls", " ", "'", "my", " ", "dir", "'">>
    /\ console[2].text[1] = "Running command: "
    /\ console[2].text # console[1].text
    /\ AfterToken(console[3].text, "): ") = Tail(console[1].text)
    /\ DOMAIN call_id_to_command # {}

\* C3: a command-end whose call id is not in the PendingCommand map prints exactly
\* one line, labelled "command <id>" and carrying the duration the event reports,
\* leaves both maps as they were and returns Running.
C3_OrphanEnd ==
    [][(Called("ExecCommandEnd") /\ event'.call_id \notin DOMAIN call_id_to_command) =>
          /\ Len(Emitted) = 1
          /\ Emitted[1].text =
                 <<IF event'.exit_code = 0 THEN "Command succeeded" ELSE "Command failed",
                   " (exit ", ToString(event'.exit_code), ", ">>
                 \o format_duration(event'.duration)
                 \o <<"): ", "command ", event'.call_id>>
          /\ UNCHANGED <<call_id_to_command, call_id_to_patch>>
          /\ status' = Running]_vars

\* C3 witness: a command began and ended, and a second end for an id with no
\* pending entry printed the synthesized label with the reported duration.
C3_Witness ==
    /\ event.tag = "ExecCommandEnd"
    /\ Len(console) = 3
    /\ console[1].text[1] = "Running command: "
    /\ AfterToken(console[2].text, "): ") = Tail(console[1].text)
    /\ console[3].text = <<"Command failed", " (exit ", "1", ", ", "5", "ms", "): ",
                           "command ", event.call_id>>
    /\ status = Running

\* C4: a patch-end prints exactly one status line, whose text is the one of the
\* four templates that (success, duration known) selects, the duration being
\* known exactly when the PendingPatch map held the call id; the line has the
\* success style when success is true and the error style otherwise.
C4_PatchEndTemplate ==
    [][Called("PatchApplyEnd") =>
          LET known == event'.call_id \in DOMAIN call_id_to_patch
              dur == format_elapsed(call_id_to_patch[event'.call_id].start_time)
          IN /\ Len(Emitted) = 1
             /\ Emitted[1].ts # NoTimestamp
             /\ \E approval \in {"auto-approved", "manual"} :
                    Emitted[1].text =
                        CASE event'.success /\ known ->
                                 <<"Patch applied (", approval, ", ">> \o dur \o <<")">>
                          [] event'.success /\ ~known -> <<"Patch applied (", approval, ")">>
                          [] ~event'.success /\ known ->
                                 <<"Patch failed (", approval, ", ">> \o dur \o <<")">>
                          [] ~event'.success /\ ~known -> <<"Patch failed (", approval, ")">>
             /\ Emitted[1].style = IF event'.success THEN success_style ELSE error_style
             /\ with_ansi => /\ Emitted[1].style = "green" <=> event'.success
                             /\ Emitted[1].style = "red" <=> ~event'.success]_vars

\* C4 witness: with ANSI styles, a failed patch-end for a pending patch printed
\* the "Patch failed" template with a duration, in the error style.
C4_Witness ==
    /\ event.tag = "PatchApplyEnd"
    /\ ~event.success
    /\ with_ansi
    /\ console # <<>>
    /\ LastLine.text[1] = "Patch failed ("
    /\ Len(LastLine.text) > 3
    /\ LastLine.style = "red"

IsUsageLine(line) == line.ts # NoTimestamp /\ line.text[1] = "Total tokens used: "

UsageLines(printed) == {i \in 1..Len(printed) : IsUsageLine(printed[i])}

UsageText(info) ==
    <<"Total tokens used: ", ToString(blended_total(info.total_token_usage))>>

\* C5, as claimed: over any sequence of events the usage line is printed at most
\* once, and only after a token count that carried usage info.
C5_UsageLineOncePerSession ==
    /\ Cardinality(UsageLines(console)) <= 1
    /\ UsageLines(console) # {} => observed.usage_events >= 1

\* C5, amended: a task-complete prints the usage line once if a token count that
\* carried usage info was processed since the previous task-complete (or since
\* construction) and not at all otherwise; no other call prints it.
C5_UsageLinePerCompletion ==
    [][/\ Called("TaskComplete") =>
              Cardinality(UsageLines(Emitted)) = IF IsSome(observed.usage) THEN 1 ELSE 0
       /\ ~Called("TaskComplete") => UsageLines(Emitted) = {}]_vars

\* C5 witness: a task-complete that followed a usage-carrying token count printed
\* the one usage line of the console, as its last line.
C5_Witness ==
    /\ event.tag = "TaskComplete"
    /\ observed.usage_events >= 1
    /\ Cardinality(UsageLines(console)) = 1
    /\ IsUsageLine(LastLine)

\* C6: at most one snapshot is held; a token count with usage info replaces it by
\* that info and one without leaves it; the total a task-complete prints is that of
\* the latest usage-carrying token count alone.
C6_LatestWins ==
    [][/\ Len(latest_token_usage') <= 1
       /\ Called("TokenCount") =>
              /\ latest_token_usage' = IF IsSome(event'.info) THEN event'.info
                                       ELSE latest_token_usage
              /\ Emitted = <<>>
       /\ (Called("TaskComplete") /\ IsSome(observed.usage)) =>
              /\ Emitted # <<>>
              /\ Emitted[Len(Emitted)].text = UsageText(Unwrap(observed.usage))
              /\ UsageLines(Emitted) = {Len(Emitted)}]_vars

\* C6 witness: two token counts carried usage info and the task-complete after
\* them printed the total of the second alone (25, not 9 + 25).
C6_Witness ==
    /\ event.tag = "TaskComplete"
    /\ calls = 3
    /\ observed.usage_events = 2
    /\ LastLine.text = <<"Total tokens used: ", "25">>

\* C7: an event of a suppressed tag prints no line, writes no transcript line and
\* leaves both maps and the usage snapshot as they were, in whatever state.
C7_SuppressedNoEffect ==
    [][\A tag \in SuppressedTags : Called(tag) =>
          UNCHANGED <<console, transcript, call_id_to_command, call_id_to_patch,
                      latest_token_usage>>]_vars

\* C7 witness: a suppressed event was processed while a command was pending and
\* the console held lines.
C7_Witness ==
    /\ event.tag \in SuppressedTags
    /\ calls = 2
    /\ DOMAIN call_id_to_command # {}
    /\ console # <<>>

\* C8: a task-complete prints, before its usage line if any, either the status
\* line "Final result:" and then the lines of the message, when the message is
\* present and not blank, or the one status line "Task complete (no final
\* message)." otherwise; it never prints both status lines and never neither.
C8_FinalResultOrNone ==
    [][Called("TaskComplete") =>
          LET message == event'.last_agent_message
              body == IF Emitted # <<>> /\ IsUsageLine(Emitted[Len(Emitted)])
                      THEN SubSeq(Emitted, 1, Len(Emitted) - 1) ELSE Emitted
              banners == {i \in 1..Len(Emitted) :
                              /\ Emitted[i].ts # NoTimestamp
                              /\ Emitted[i].text = <<"Final result:">>}
              nones == {i \in 1..Len(Emitted) :
                            /\ Emitted[i].ts # NoTimestamp
                            /\ Emitted[i].text = <<"Task complete (no final message).">>}
          IN IF IsSome(message) /\ ~trim_is_empty(Unwrap(message))
             THEN /\ banners = {1} /\ nones = {}
                  /\ Len(body) = 1 + Len(lines(Unwrap(message)))
                  /\ \A i \in 1..Len(lines(Unwrap(message))) :
                         /\ body[i + 1].ts = NoTimestamp
                         /\ body[i + 1].text = lines(Unwrap(message))[i]
             ELSE /\ banners = {} /\ nones = {1}
                  /\ Len(body) = 1]_vars

\* C8 witness: a task-complete with a blank message printed the line that there is
\* no final message.
C8_Witness ==
    /\ event.tag = "TaskComplete"
    /\ event.last_agent_message = Some(<<" ", "\n">>)
    /\ console # <<>>
    /\ LastLine.text = <<"Task complete (no final message).">>

\* C9: a task-complete calls the last-message writer once, with the event's
\* optional message and the configured path, if a path was configured, and not at
\* all if none was; no other call calls the writer.
C9_LastMessageWriter ==
    [][/\ Called("TaskComplete") =>
              last_message_calls' =
                  IF IsSome(last_message_path)
                  THEN Append(last_message_calls,
                              [last_agent_message |-> event'.last_agent_message,
                               output_file |-> Unwrap(last_message_path),
                               printed |-> Len(console)])
                  ELSE last_message_calls
       /\ ~Called("TaskComplete") => UNCHANGED last_message_calls]_vars

\* C9 witness: with a path configured, a task-complete without a message followed
\* another call and the writer was called once, with no message.
C9_Witness ==
    /\ event.tag = "TaskComplete"
    /\ event.last_agent_message = None
    /\ calls = 2
    /\ Len(last_message_calls) = 1
    /\ last_message_calls[1].last_agent_message = None

Unstyled(line) == [ts |-> line.ts, text |-> line.text]

\* C10: with a transcript sink configured, the transcript holds the printed lines
\* without their styles: as many lines, in the same order, each with the same
\* timestamp and the same text.
C10_TranscriptMirrorsConsole ==
    IsSome(transcript_log) =>
        transcript = [i \in 1..Len(console) |-> Unstyled(console[i])]

\* C10 witness: with a sink and ANSI styles, the configuration summary and a later
\* call at a later time printed status lines and plain lines.
C10_Witness ==
    /\ IsSome(transcript_log)
    /\ with_ansi
    /\ Len(console) >= 9
    /\ \E i, j \in 1..Len(console) :
           /\ console[i].ts = NoTimestamp
           /\ console[j].ts # NoTimestamp
           /\ console[j].ts # console[1].ts
           /\ console[j].style # Style_new

\* C11: a failing transcript write or flush changes nothing but the transcript.
\* Every line printed is handed to write_line, whatever the earlier calls of
\* write_line met; and a call made with writes or flushes failing prints the same
\* lines, returns the same signal, leaves the same maps and the same usage
\* snapshot and hands the same lines to write_line as the same call made from the
\* same state on a sink that never fails.
C11_WriteFailureNonFatal ==
    /\ IsSome(transcript_log) =>
           written = [i \in 1..Len(console) |-> Unstyled(console[i])]
    /\ Replayed => /\ stderr = <<>>
                   /\ transcript = written
                   /\ Core = twin.post

\* C11 witness: a call that printed several lines after lines printed earlier,
\* on a sink that by then had failed a write and a flush, was made again on a
\* sink that never fails.
C11_Witness ==
    /\ Replayed
    /\ twin.failures = 2
    /\ twin.pre.core.console # <<>>
    /\ Len(console) >= Len(twin.pre.core.console) + 2
    /\ Len(transcript) > twin.failures
    /\ DOMAIN call_id_to_command # {}

\* C12: create makes the missing directories above the path and then opens the
\* file truncated.  It returns Ok exactly when every missing directory can be made
\* and the file can be opened; then there is a sink, the directories are there and
\* the file is there and empty, whatever it held.  Otherwise it returns Err and
\* there is no sink; and when a directory could not be made, the file is not there
\* afterwards if it was not there before and holds what it held if it was.
C12_CreateTruncatesOrFails ==
    [][(fs.result = "none" /\ fs'.result # "none") =>
          LET dir == parent(fs.path)
              above == IF IsSome(dir) THEN ancestors(Unwrap(dir)) ELSE {}
              makeable == \A d \in above : d \in fs.dirs \/ d \notin fs.denied
              openable == fs.path # <<>> /\ ~fs.locked
          IN /\ fs'.result = IF makeable /\ openable THEN "Ok" ELSE "Err"
             /\ fs'.result = "Ok" =>
                    /\ transcript_log' = Some(fs.path)
                    /\ above \subseteq fs'.dirs
                    /\ fs'.exists
                    /\ transcript' = <<>>
                    /\ writer' = <<>>
             /\ fs'.result = "Err" => transcript_log' = None
             /\ ~makeable => /\ fs'.result = "Err"
                             /\ fs'.exists = fs.exists
                             /\ transcript' = transcript]_vars

\* C12 witness: below a directory that was there, a directory could not be made
\* (one above it was made first); create returned Err and there is no file.
C12_Witness ==
    /\ fs.result = "Err"
    /\ fs.path = <<"logs", "run", "transcript.log">>
    /\ <<"logs">> \in fs.dirs
    /\ <<"logs", "run">> \in fs.denied
    /\ <<"logs", "run">> \notin fs.dirs
    /\ ~fs.locked
    /\ ~fs.exists
    /\ transcript_log = None

\* C13: print_config_summary prints, in this order, the version banner, the line
\* of the session id and the model, the line "model: <model>", one line
\* "sandbox: <value>" for each entry of key "sandbox" in the order of the entries
\* and no line for another entry, the working-directory line, and then the prompt
\* under its heading; both maps and the usage snapshot stay as they were.
C13_ConfigSummaryOrder ==
    [][Called("print_config_summary") =>
          LET c == event'.config
              at == {i \in 1..Len(c.entries) : c.entries[i][1] = "sandbox"}
              n == Cardinality(at)
              \* the place among the entries of the k-th entry of key "sandbox"
              nth(k) == CHOOSE i \in at : Cardinality({j \in at : j <= i}) = k
              body == lines(c.prompt)
          IN /\ Len(Emitted) = 5 + n + Len(body)
             /\ Emitted[1].text = <<"Codex (v">> \o VERSION \o <<") non-interactive session">>
             /\ Emitted[2].text = <<"Session ">> \o c.session_id \o <<" using model ">>
                                  \o c.model
             /\ Emitted[3].text = <<"model: ">> \o c.model
             /\ \A k \in 1..n :
                    Emitted[3 + k].text = <<"sandbox", ": ">> \o c.entries[nth(k)][2]
             /\ Emitted[4 + n].text = <<"Working directory: ">> \o c.cwd
             /\ Emitted[5 + n].text = <<"Prompt:">>
             /\ \A i \in 1..(5 + n) : Emitted[i].ts = clock
             /\ \A i \in 1..Len(body) :
                    /\ Emitted[5 + n + i].text = body[i]
                    /\ Emitted[5 + n + i].ts = NoTimestamp
             /\ UNCHANGED <<call_id_to_command, call_id_to_patch, latest_token_usage>>]_vars

\* C13 witness: with a command pending, the summary of a configuration with two
\* entries of key "sandbox" around another entry printed both, in their order,
\* between the model line and the working-directory line.
C13_Witness ==
    /\ event.tag = "print_config_summary"
    /\ calls = 2
    /\ DOMAIN call_id_to_command # {}
    /\ Len(console) = 9
    /\ console[4].text = <<"model: ", "gpt-5-high">>
    /\ console[5].text = <<"sandbox", ": ", "workspace-write">>
    /\ console[6].text = <<"sandbox", ": ", "read-only">>
    /\ console[7].text = <<"Working directory: ", "/w">>

\* C14, as claimed: every arm of process_event other than that of
\* shutdown-complete and the suppressed ones returns Running (Continue).
C14_AllButShutdownContinue ==
    [][\A tag \in ProcessEventTags \ ({"ShutdownComplete"} \cup SuppressedTags) :
          Called(tag) => status' = Running]_vars

\* C14, amended: every arm of process_event other than those of task-complete and
\* shutdown-complete returns Running (Continue), the suppressed arms included and
\* whatever was returned before; the arm of task-complete returns InitiateShutdown.
C14_AllButTwoContinue ==
    [][/\ \A tag \in ProcessEventTags \ {"TaskComplete", "ShutdownComplete"} :
              Called(tag) => status' = Running
       /\ Called("TaskComplete") => status' = InitiateShutdown /\ status' # Running]_vars

\* C14 witness: after a task-complete had returned InitiateShutdown, an event of
\* an arm that prints was processed and Running was returned.
C14_Witness ==
    /\ calls = 2
    /\ event.tag = "TurnAborted"
    /\ Len(console) = 2
    /\ console[1].text = <<"Task complete (no final message).">>
    /\ console[2].text = <<"Task aborted">>
    /\ status = Running

\* C15: after every call, a call id is in the PendingCommand map exactly when a
\* command-begin for it was processed and no command-end for it since, and in the
\* PendingPatch map exactly when a patch-begin for it was processed and no
\* patch-end for it since.  A begin adds its id to the map of its domain, an end
\* removes its id from it, the entries of the other ids stay as they were, and
\* every other call (task-complete and shutdown-complete among them) leaves both
\* maps as they were.
C15_PendingIffBegunNotEnded ==
    [][/\ DOMAIN call_id_to_command' = observed'.open_commands
       /\ DOMAIN call_id_to_patch' = observed'.open_patches
       /\ \A tag \in ProcessEventTags : Called(tag) =>
              LET id == event'.call_id
                  commands == DOMAIN call_id_to_command
                  patches == DOMAIN call_id_to_patch
              IN /\ DOMAIN call_id_to_command' =
                        CASE tag = "ExecCommandBegin" -> commands \cup {id}
                          [] tag = "ExecCommandEnd" -> commands \ {id}
                          [] OTHER -> commands
                 /\ DOMAIN call_id_to_patch' =
                        CASE tag = "PatchApplyBegin" -> patches \cup {id}
                          [] tag = "PatchApplyEnd" -> patches \ {id}
                          [] OTHER -> patches
                 /\ \A x \in commands \cap DOMAIN call_id_to_command' :
                        (tag = "ExecCommandBegin" /\ x = id)
                        \/ call_id_to_command'[x] = call_id_to_command[x]
                 /\ \A x \in patches \cap DOMAIN call_id_to_patch' :
                        (tag = "PatchApplyBegin" /\ x = id)
                        \/ call_id_to_patch'[x] = call_id_to_patch[x]]_vars

\* C15 witness: a command began for one id and a patch for another, neither
\* ended, and a task-complete was processed: both are still pending.
C15_Witness ==
    /\ event.tag = "TaskComplete"
    /\ status = InitiateShutdown
    /\ calls = 3
    /\ DOMAIN call_id_to_command = {"1"}
    /\ DOMAIN call_id_to_patch = {"2"}
    /\ observed.open_commands = {"1"}
    /\ observed.open_patches = {"2"}

\* C16: the two maps are keyed apart.  A patch-begin or patch-end leaves the
\* PendingCommand map as it was and a command-begin or command-end leaves the
\* PendingPatch map as it was, also for a call id that is in the other map.  A
\* command-end for an id with a pending patch and no pending command prints the
\* label "command <id>" with the duration the event reports, and the patch stays
\* pending; a patch-end for an id with a pending command and no pending patch
\* prints the template without a duration, labelled "manual", and the command
\* stays pending.
C16_NoCrossMatch ==
    [][/\ (Called("PatchApplyBegin") \/ Called("PatchApplyEnd")) =>
              UNCHANGED call_id_to_command
       /\ (Called("ExecCommandBegin") \/ Called("ExecCommandEnd")) =>
              UNCHANGED call_id_to_patch
       /\ (/\ Called("ExecCommandEnd")
           /\ event'.call_id \in DOMAIN call_id_to_patch
           /\ event'.call_id \notin DOMAIN call_id_to_command) =>
              /\ Len(Emitted) = 1
              /\ Emitted[1].text =
                     <<IF event'.exit_code = 0 THEN "Command succeeded"
                       ELSE "Command failed",
                       " (exit ", ToString(event'.exit_code), ", ">>
                     \o format_duration(event'.duration)
                     \o <<"): ", "command ", event'.call_id>>
              /\ event'.call_id \in DOMAIN call_id_to_patch'
       /\ (/\ Called("PatchApplyEnd")
           /\ event'.call_id \in DOMAIN call_id_to_command
           /\ event'.call_id \notin DOMAIN call_id_to_patch) =>
              /\ Len(Emitted) = 1
              /\ Emitted[1].text =
                     <<IF event'.success THEN "Patch applied (" ELSE "Patch failed (",
                       "manual", ")">>
              /\ event'.call_id \in DOMAIN call_id_to_command']_vars

\* C16 witness: a patch began for an id, no command did, and a command-end for
\* that id printed the synthesized label while the patch is still pending.
C16_Witness ==
    /\ event.tag = "ExecCommandEnd"
    /\ calls = 2
    /\ Len(console) = 2
    /\ console[1].text[1] = "Applying patch ("
    /\ console[2].text = <<"Command succeeded", " (exit ", "0", ", ", "5", "ms", "): ",
                           "command ", event.call_id>>
    /\ DOMAIN call_id_to_patch = {event.call_id}
    /\ DOMAIN call_id_to_command = {}

\* the place on the console of the last line of a command-begin
LastBegin ==
    CHOOSE i \in 1..Len(console) :
        /\ console[i].text[1] = "Running command: "
        /\ \A j \in (i + 1)..Len(console) : console[j].text[1] # "Running command: "

\* C17: call ids that repeat degrade the display and nothing else.  A
\* command-begin for an id that is already pending leaves one entry for the id,
\* holding the command and the start time of this later begin; the next
\* command-end for the id prints the command of the later begin with the time
\* elapsed since the later begin, and removes the entry; a command-end for the id
\* after that prints the label "command <id>".
C17_DuplicateBegin ==
    [][/\ (Called("ExecCommandBegin") /\ event'.call_id \in DOMAIN call_id_to_command) =>
              /\ DOMAIN call_id_to_command' = DOMAIN call_id_to_command
              /\ call_id_to_command'[event'.call_id] =
                     [command |-> event'.command, start_time |-> clock]
       /\ (Called("ExecCommandEnd") /\ event'.call_id \in DOMAIN call_id_to_command) =>
              /\ Len(Emitted) = 1
              /\ AfterToken(Emitted[1].text, "): ") = Tail(console[LastBegin].text)
              /\ SubSeq(Emitted[1].text, 5, 6) =
                     format_duration(clock - console[LastBegin].ts)
              /\ event'.call_id \notin DOMAIN call_id_to_command'
       /\ (Called("ExecCommandEnd") /\ event'.call_id \notin DOMAIN call_id_to_command) =>
              /\ Len(Emitted) = 1
              /\ AfterToken(Emitted[1].text, "): ") = <<"command ", event'.call_id>>
              /\ UNCHANGED call_id_to_command]_vars

\* C17 witness: two commands began under one id, at different times; the first
\* end printed the command of the second begin and the time since it, and the
\* second end printed the synthesized label.
C17_Witness ==
    /\ calls = 4
    /\ Len(console) = 4
    /\ console[1].text = <<"Running command: ", "ls", " ", "'", "my", " ", "dir", "'">>
    /\ console[1].ts = 0
    /\ console[2].text = <<"Running command: ", "echo", " ", "hi">>
    /\ console[2].ts = 1
    /\ console[3].text = <<"Command succeeded", " (exit ", "0", ", ", "0", "ms", "): ",
                           "echo", " ", "hi">>
    /\ console[4].text = <<"Command failed", " (exit ", "1", ", ", "5", "ms", "): ",
                           "command ", "1">>
    /\ DOMAIN call_id_to_command = {}

\* C18: the renderer keeps no shutdown state.  What process_event returns is
\* decided by the event alone, so a shutdown-complete returns Shutdown whether or
\* not a task-complete came before it; and a call made after InitiateShutdown or
\* Shutdown was returned prints the same lines, leaves the same maps and the same
\* usage snapshot, calls the last-message writer alike and returns the same
\* signal as the same call made from the same state after Running was returned.
C18_NoShutdownGate ==
    /\ (calls > 0 /\ ~Rewound) =>
           status = CASE event.tag = "TaskComplete" -> InitiateShutdown
                      [] event.tag = "ShutdownComplete" -> Shutdown
                      [] OTHER -> Running
    /\ Replayed => Core = twin.post

\* C18 witness: after Shutdown had been returned a command began, which printed
\* its line, entered the map and returned Running; the same call was then made
\* again as if Running had been returned before it.
C18_Witness ==
    /\ Replayed
    /\ twin.pre.core.status = Shutdown
    /\ twin.pre.calls = 2
    /\ event.tag = "ExecCommandBegin"
    /\ status = Running
    /\ Len(console) = Len(twin.pre.core.console) + 1
    /\ twin.pre.core.console # <<>>
    /\ event.call_id \in DOMAIN call_id_to_command
    /\ event.call_id \notin DOMAIN twin.pre.core.call_id_to_command

\* C19: a task-complete first calls the last-message writer, if a path is
\* configured, before it prints any line; then prints the final result or the line
\* that there is none; then, if a snapshot is retained, the usage line, which is
\* the last line of the event and its only usage line; and returns
\* InitiateShutdown with the snapshot empty.  A snapshot is retained exactly when
\* a token count carried usage info since the last task-complete, so a
\* task-complete that follows another with no such token count between them
\* prints no usage line.
C19_TaskCompleteOrder ==
    [][/\ latest_token_usage' = observed'.usage
       /\ Called("TaskComplete") =>
              /\ IF IsSome(last_message_path)
                 THEN /\ Len(last_message_calls') = Len(last_message_calls) + 1
                      /\ last_message_calls'[Len(last_message_calls')].printed = Len(console)
                 ELSE UNCHANGED last_message_calls
              /\ Emitted # <<>>
              /\ Emitted[1].text \in {<<"Final result:">>,
                                       <<"Task complete (no final message).">>}
              /\ IF IsSome(latest_token_usage)
                 THEN /\ Len(Emitted) >= 2
                      /\ UsageLines(Emitted) = {Len(Emitted)}
                      /\ Emitted[Len(Emitted)].text = UsageText(Unwrap(latest_token_usage))
                 ELSE UsageLines(Emitted) = {}
              /\ latest_token_usage' = None
              /\ status' = InitiateShutdown]_vars

\* C19 witness: a token count carried usage info and two task-completes followed
\* it.  The first called the writer before printing and printed the usage line
\* last; the second called the writer after those lines and printed no usage line.
C19_Witness ==
    /\ calls = 3
    /\ event.tag = "TaskComplete"
    /\ Len(last_message_calls) = 2
    /\ last_message_calls[1].printed = 0
    /\ last_message_calls[2].printed >= 2
    /\ IsUsageLine(console[last_message_calls[2].printed])
    /\ UsageLines(console) = {last_message_calls[2].printed}
    /\ Len(console) > last_message_calls[2].printed
    /\ latest_token_usage = None

\* the duration printed on a command-end line: what stands between the exit
\* code and the command text
ShownDuration(text) ==
    LET close == CHOOSE i \in 5..Len(text) :
                     text[i] = "): " /\ \A j \in 5..(i - 1) : text[j] # "): "
    IN SubSeq(text, 5, close - 1)

C21_ExitCodeFraming ==
    [][Called("ExecCommandEnd") =>
           /\ Len(Emitted) = 1
           /\ Emitted[1].ts = clock
           /\ Emitted[1].text[1] \in {"Command succeeded", "Command failed"}
           /\ Emitted[1].text[1] = "Command succeeded" <=> event'.exit_code = 0
           /\ Emitted[1].style =
                  IF event'.exit_code = 0 THEN success_style ELSE error_style
           /\ SubSeq(Emitted[1].text, 2, 4) =
                  <<" (exit ", ToString(event'.exit_code), ", ">>]_vars

\* C21 witness: with colours on, a pending command ended with exit code -1;
\* the line it printed is a failure in red that shows the code and the command
\* of the begin.
C21_Witness ==
    /\ with_ansi
    /\ event.tag = "ExecCommandEnd"
    /\ event.exit_code = -1
    /\ Len(console) = 2
    /\ console[1].text[1] = "Running command: "
    /\ console[2].text[1] = "Command failed"
    /\ console[2].text[3] = "-1"
    /\ console[2].style = "red"
    /\ AfterToken(console[2].text, "): ") = Tail(console[1].text)

\* C22: the approval label of a patch-end line.  A patch-begin stores the
\* auto-approval flag of the event under its call id and touches no other entry;
\* a patch-end prints "auto-approved" exactly when the map held an entry for its
\* call id whose stored flag is set, and "manual" otherwise, and touches no other
\* entry.  A patch-end without an entry prints the template without a duration
\* with the label "manual", leaves both maps as they were and returns Running
\* (continue).
C22_ApprovalLabel ==
    [][/\ Called("PatchApplyBegin") =>
              /\ call_id_to_patch'[event'.call_id].auto_approved = event'.auto_approved
              /\ \A id \in DOMAIN call_id_to_patch \ {event'.call_id} :
                     /\ id \in DOMAIN call_id_to_patch'
                     /\ call_id_to_patch'[id] = call_id_to_patch[id]
       /\ Called("PatchApplyEnd") =>
              /\ Len(Emitted) = 1
              /\ Emitted[1].text[2] \in {"auto-approved", "manual"}
              /\ Emitted[1].text[2] = "auto-approved" <=>
                     IF event'.call_id \in DOMAIN call_id_to_patch
                     THEN call_id_to_patch[event'.call_id].auto_approved
                     ELSE FALSE
              /\ \A id \in DOMAIN call_id_to_patch \ {event'.call_id} :
                     /\ id \in DOMAIN call_id_to_patch'
                     /\ call_id_to_patch'[id] = call_id_to_patch[id]
       /\ (Called("PatchApplyEnd") /\ event'.call_id \notin DOMAIN call_id_to_patch) =>
              /\ Emitted[1].text =
                     <<IF event'.success THEN "Patch applied (" ELSE "Patch failed (",
                       "manual", ")">>
              /\ UNCHANGED <<call_id_to_command, call_id_to_patch>>
              /\ status' = Running
       /\ ~(Called("PatchApplyBegin") \/ Called("PatchApplyEnd")) =>
              UNCHANGED call_id_to_patch]_vars

\* C22 witness: an auto-approved patch began under id 1; a patch-end for id 2,
\* which never began, printed "manual" and left the entry of id 1 in place; the
\* patch-end for id 1 then printed "auto-approved" with a duration.
C22_Witness ==
    /\ calls = 3
    /\ Len(console) = 3
    /\ console[1].text[1] = "Applying patch ("
    /\ console[1].text[2] = "auto-approved"
    /\ console[2].text = <<"Patch applied (", "manual", ")">>
    /\ console[3].text[2] = "auto-approved"
    /\ Len(console[3].text) > 3
    /\ event.tag = "PatchApplyEnd"
    /\ event.call_id = "1"
    /\ status = Running
    /\ DOMAIN call_id_to_patch = {}

\* a plain line as printed: no timestamp, no style
PlainLine(text) ==
    [ts |-> NoTimestamp, ts_style |-> Style_new, text |-> text, style |-> Style_new]

\* the marker of a step status: check mark, arrow, bullet
StepMarker(step_status) ==
    CASE step_status = "Completed" -> "U+2713"
      [] step_status = "InProgress" -> "U+2192"
      [] step_status = "Pending" -> "U+2022"

\* the lines of a plan update: the header in the info style, the explanation if
\* shown, one line per step in the order of the plan
PlanUpdateLines(ev, shown) ==
    <<[ts |-> clock, ts_style |-> timestamp_style, text |-> <<"Plan update">>,
       style |-> info_style]>>
    \o (IF shown THEN <<PlainLine(Unwrap(ev.explanation))>> ELSE <<>>)
    \o [i \in 1..Len(ev.plan) |->
            PlainLine(<<StepMarker(ev.plan[i].status), " ">> \o ev.plan[i].step)]

\* C23, as claimed: a plan update prints the "Plan update" status line in the
\* info style, then the explanation as a plain line if an explanation that is not
\* the empty string is present, then one plain line per step, in order, each
\* with the marker of its status; it changes neither map nor the usage snapshot
\* and returns Running.
C23_ExplanationIfNonEmpty ==
    [][Called("PlanUpdate") =>
           /\ Emitted = PlanUpdateLines(event', IF IsSome(event'.explanation)
                                                THEN Unwrap(event'.explanation) # <<>>
                                                ELSE FALSE)
           /\ UNCHANGED <<call_id_to_command, call_id_to_patch, latest_token_usage>>
           /\ status' = Running]_vars

\* C23, amended: the explanation is printed if it is present and has a character
\* that is not white space; an explanation of white space only is not printed.
\* The rest is as claimed, and the three markers differ from one another.
C23_ExplanationIfNotBlank ==
    [][Called("PlanUpdate") =>
           /\ Emitted = PlanUpdateLines(event', IF IsSome(event'.explanation)
                                                THEN ~trim_is_empty(Unwrap(event'.explanation))
                                                ELSE FALSE)
           /\ Cardinality({StepMarker(st) : st \in {"Completed", "InProgress", "Pending"}}) = 3
           /\ UNCHANGED <<call_id_to_command, call_id_to_patch, latest_token_usage>>
           /\ status' = Running]_vars

\* C23 witness: while a command and a patch were pending, a plan update with the
\* explanation " " and no steps printed the header alone.
C23_Witness ==
    /\ event.tag = "PlanUpdate"
    /\ event.explanation = Some(<<" ">>)
    /\ calls = 2
    /\ Len(console) = 2
    /\ LastLine.text = <<"Plan update">>
    /\ DOMAIN call_id_to_command \cup DOMAIN call_id_to_patch # {}

\* the number of lines of a text: one per line feed, and one more for what
\* follows the last line feed if anything does
InputLines(text) ==
    Cardinality({i \in 1..Len(text) : text[i] = "\n"})
    + (IF text # <<>> /\ text[Len(text)] # "\n" THEN 1 ELSE 0)

\* a text without its line endings' carriage returns and without its final
\* line feed
WithoutLineEndings(text) ==
    LET keep == SelectSeq([i \in 1..Len(text) |-> i],
                          LAMBDA i : ~(/\ text[i] = "\r"
                                       /\ i < Len(text)
                                       /\ text[i + 1] = "\n"))
        kept == [k \in 1..Len(keep) |-> text[keep[k]]]
    IN IF kept # <<>> /\ kept[Len(kept)] = "\n"
       THEN SubSeq(kept, 1, Len(kept) - 1) ELSE kept

\* the place among the lines of this call of the status line with this text
HeaderAt(header) ==
    CHOOSE h \in 1..Len(Emitted) :
        Emitted[h].ts # NoTimestamp /\ Emitted[h].text = header

\* the plain lines of this call
PlainEmitted == SelectSeq(Emitted, LAMBDA line : line.ts = NoTimestamp)

\* the body was echoed after the header: the plain lines of the call are as
\* many as the lines of the body, they stand right after the header, none holds
\* a line feed, and put together again with line feeds they are the body
EchoedAfter(header, body) ==
    LET echo == [i \in 1..Len(PlainEmitted) |-> PlainEmitted[i].text]
    IN /\ \E h \in 1..Len(Emitted) :
              Emitted[h].ts # NoTimestamp /\ Emitted[h].text = header
       /\ Len(echo) = InputLines(body)
       /\ \A i \in 1..Len(echo) :
              /\ Emitted[HeaderAt(header) + i] = PlainLine(echo[i])
              /\ \A k \in 1..Len(echo[i]) : echo[i][k] # "\n"
       /\ join(echo, <<"\n">>) = WithoutLineEndings(body)

\* the bodies of this call are echoed line by line: the prompt of a
\* configuration summary, the final message of a task-complete and the message
\* of an agent message
BodiesEchoed ==
    /\ Called("print_config_summary") => EchoedAfter(<<"Prompt:">>, event'.config.prompt)
    /\ Called("TaskComplete") =>
           ((IF IsSome(event'.last_agent_message)
             THEN ~trim_is_empty(Unwrap(event'.last_agent_message))
             ELSE FALSE) =>
                EchoedAfter(<<"Final result:">>, Unwrap(event'.last_agent_message)))
    /\ Called("AgentMessage") =>
           (~trim_is_empty(event'.message) =>
                EchoedAfter(<<"Agent message:">>, event'.message))

\* C24, as claimed: a body of several lines is printed as one plain line without
\* a timestamp per line of the body, in order, blank lines kept, so that as many
\* plain lines are printed as the body has lines; and the echo of the prompt has
\* one line or more.
C24_EchoAtLeastOneLine ==
    [][/\ BodiesEchoed
       /\ Called("print_config_summary") => Len(PlainEmitted) >= 1]_vars

\* C24, amended: as claimed, but the echo of the prompt has as many lines as the
\* prompt, which is none for the empty prompt.
C24_EchoLinePerLine ==
    [][/\ BodiesEchoed
       /\ Called("print_config_summary") =>
              (Len(PlainEmitted) = 0 <=> event'.config.prompt = <<>>)]_vars

\* C24 witness: the summary of a configuration with the empty prompt printed
\* "Prompt:" as its last line, and then an agent message of five lines, three of
\* them blank, printed five plain lines.
C24_Witness ==
    /\ calls = 2
    /\ event.tag = "AgentMessage"
    /\ event.message = <<"\n", "x", "\n", "\n", "y", "\n", "\n">>
    /\ Len(console) = 6 + 1 + 5
    /\ console[6].text = <<"Prompt:">>
    /\ console[7].text = <<"Agent message:">>
    /\ [i \in 1..5 |-> console[7 + i].text] = << <<>>, <<"x">>, <<>>, <<"y">>, <<>> >>

\* C25: an agent message whose text has a character that is not white space
\* prints the status line "Agent message:" in the info style and then the lines
\* of the message as plain lines; one whose text is empty or white space only
\* prints nothing and writes nothing to the transcript.  Either way the maps,
\* the usage snapshot and the last-message calls stay as they were and Running
\* is returned.
C25_AgentMessage ==
    [][Called("AgentMessage") =>
           /\ IF \E i \in 1..Len(event'.message) : event'.message[i] \notin Whitespace
              THEN /\ Len(Emitted) = 1 + InputLines(event'.message)
                   /\ Emitted[1] = [ts |-> clock, ts_style |-> timestamp_style,
                                     text |-> <<"Agent message:">>, style |-> info_style]
                   /\ EchoedAfter(<<"Agent message:">>, event'.message)
              ELSE /\ Emitted = <<>>
                   /\ UNCHANGED <<console, transcript, written>>
           /\ UNCHANGED <<call_id_to_command, call_id_to_patch, latest_token_usage,
                          last_message_calls>>
           /\ status' = Running]_vars

\* C25 witness: with colours on and a usage snapshot retained, an agent message
\* of white space only was processed and the console is still empty.
C25_Witness ==
    /\ calls = 2
    /\ with_ansi
    /\ event.tag = "AgentMessage"
    /\ event.message = <<" ", "\n">>
    /\ console = <<>>
    /\ IsSome(latest_token_usage)
    /\ status = Running

\* C26: one call of write_line.  A call that meets no error leaves the
\* BufWriter empty and the file holding what it held, then what the BufWriter
\* had kept after a failed flush, then the line of this call; so that, as long
\* as no write has failed, the file after such a call is every line handed to
\* write_line so far, in the order of the calls.  A call whose write fails
\* prints the one diagnostic of the write, leaves the file and the BufWriter as
\* they were (no flush took place) and returns; a call whose flush fails prints
\* the diagnostic of the flush and keeps the line in the BufWriter.  No call
\* changes anything of the renderer.
C26_WriteLineFlushes ==
    [][written' # written =>
           LET line == written'[Len(written')]
               outcome == IF faults = <<>> THEN "ok" ELSE Head(faults)
               write_failed(diagnostics) ==
                   \E i \in 1..Len(diagnostics) :
                       diagnostics[i] = "Failed to write transcript log line"
           IN /\ written' = Append(written, line)
              /\ outcome = "ok" =>
                     /\ transcript' = transcript \o writer \o <<line>>
                     /\ writer' = <<>>
                     /\ stderr' = stderr
                     /\ ~write_failed(stderr) => transcript' = written'
              /\ outcome = "write_err" =>
                     /\ transcript' = transcript
                     /\ writer' = writer
                     /\ stderr' = Append(stderr, "Failed to write transcript log line")
              /\ outcome = "flush_err" =>
                     /\ transcript' = transcript
                     /\ writer' = Append(writer, line)
                     /\ stderr' = Append(stderr, "Failed to flush transcript log")
              /\ UNCHANGED <<console, call_id_to_command, call_id_to_patch,
                             latest_token_usage, last_message_calls, status>>]_vars

\* C26 witness: of four calls the second met a failing flush and the third a
\* failing write; after the fourth, which met no error, the file holds the
\* first, the second and the fourth line and the BufWriter holds nothing.
C26_Witness ==
    /\ Len(written) = 4
    /\ stderr = <<"Failed to flush transcript log", "Failed to write transcript log line">>
    /\ transcript = <<written[1], written[2], written[4]>>
    /\ written[2] # written[3]
    /\ writer = <<>>
    /\ faults = <<>>

====
